---- MODULE Spec2Model ----
(***************************************************************************)
(* Interactive Christmas-tree scene: the progress controller, the          *)
(* rotation/drag physics of the scene group (ChristmasTree) and the        *)
(* gesture-to-state mapper (GestureController) with the life cycle of its  *)
(* view, the photo-frame focus selection and the photo frames' and the     *)
(* ornaments' transforms (PhotoFrames, Ornaments) and the ambient dust     *)
(* (MagicalDust).                                                          *)
(*                                                                         *)
(* Numbers.  JavaScript doubles are modelled in fixed point:               *)
(*   - progress and blend factors in ten-thousandths (ONE = 1.0);          *)
(*   - angles (radians) and angular velocities (radians per frame) in      *)
(*     millionths;                                                         *)
(*   - pointer coordinates in CSS pixels;                                  *)
(*   - hand landmarks in thousandths of the normalised image width, the    *)
(*     palm centre and the mirrored hand position in two-thousandths       *)
(*     (the centre is a mean of two landmarks), NDC in two-thousandths;    *)
(*   - frame times in milliseconds.                                        *)
(* A product with a fraction is rounded to the nearest unit, as the        *)
(* double product is rounded to the nearest double.  NaN is one value      *)
(* that every arithmetic operation propagates and every comparison         *)
(* rejects.                                                                *)
(***************************************************************************)
EXTENDS Integers, Sequences, FiniteSets, TLC

VARIABLES
    treeState,      \* App state handed to ChristmasTree / set by setTreeState
    progress,       \* progressRef.current
    velocityY,      \* velocityY.current (yaw velocity)
    velocityX,      \* velocityX.current (pitch velocity)
    rotation,       \* groupRef.current.rotation: [x |-> pitch, y |-> yaw]
    isDragging,     \* isDragging.current
    lastPointer,    \* lastPointer.current: [x, y]
    previousHandX,  \* previousHandX.current: NoHand (null) or a position
    handTarget,     \* MagicalDust handTarget.current: [x, y, active]
    emitted,        \* window events dispatched by the last handler run
    polled,         \* recognition results of the last processed video frame
    prevPolled,     \* recognition results of the processed frame before it
    handFrames,     \* processed frames that showed a hand, so far
    lastOp,         \* the event handled last
    lastArg,        \* that event's payload
    frame,          \* frame callbacks run so far
    inputs,         \* external events (pointer, toggle, poll) handled so far
    idleTicks,      \* frame callbacks run since the last external event
    focusedPhotoIndex,      \* ChristmasTree state: NoFocus (null) or an index
    ribbon,                 \* the ribbon mesh: [scale, visible, rotationY]
    generated,              \* the target angles the last placement run produced
    photoFrames,            \* per photo frame: [goal, sway, scale, pos] of its group
    ornaments,              \* per ornament kind: chaosData, targetData and the
                            \* transforms written to the instanced mesh
    matrixWorld,            \* the scene group's world matrix, as the rotation
                            \* [x, y] the renderer last composed it from
    particle,               \* one dust particle: positions[idx..], velocities[idx..]
    pointer,                \* the renderer's pointer (NDC): [x, y]
    mounted,                \* GestureController effect: let mounted
    initStep,               \* where the effect's async init() is suspended
    videoRef,               \* videoRef.current is the video element (not null)
    gestureRecognizerRef,   \* gestureRecognizerRef.current is loaded (not null)
    streamRef,              \* streamRef.current holds the camera stream
    tracks,                 \* the camera stream's tracks: none yet, live, stopped
    metadataHandler,        \* onloadedmetadata is set and has not run yet
    requestRef,             \* requestRef.current: 0 or an animation-frame id
    scheduled,              \* animation-frame requests pending in the browser
    nextRequest             \* the id the next requestAnimationFrame returns

meshVars == << ribbon, generated, photoFrames, ornaments, matrixWorld >>

dustVars == << particle, pointer >>

viewVars == << mounted, initStep, videoRef, gestureRecognizerRef, streamRef,
               tracks, metadataHandler, requestRef, scheduled, nextRequest >>

vars == << treeState, progress, velocityY, velocityX, rotation, isDragging,
           lastPointer, previousHandX, handTarget, emitted, polled,
           prevPolled, handFrames, lastOp, lastArg, frame, inputs, idleTicks,
           focusedPhotoIndex, meshVars, dustVars, viewVars >>

---------------------------------------------------------------------------
(* Fixed-point numbers *)

ONE == 10000

\* The value of a failed numeric operation (x - undefined); it also stands
\* for the undefined that `e.clientX || (e.touches && ...)` yields.
NaN == 0 - 2147483647

IsNum(a) == a # NaN

Abs(a) == IF a < 0 THEN 0 - a ELSE a

Add(a, b) == IF a = NaN \/ b = NaN THEN NaN ELSE a + b

Sub(a, b) == IF a = NaN \/ b = NaN THEN NaN ELSE a - b

\* n / d rounded to the nearest integer, halves away from zero (d > 0).
RoundDiv(n, d) ==
    IF n >= 0 THEN (2 * n + d) \div (2 * d)
              ELSE 0 - ((2 * (0 - n) + d) \div (2 * d))

\* a * (num / den)
Times(a, num, den) == IF a = NaN THEN NaN ELSE RoundDiv(a * num, den)

\* Math.abs(a) < limit; false for NaN.
AbsBelow(a, limit) == a # NaN /\ Abs(a) < limit

---------------------------------------------------------------------------
(* Program constants *)

DampLambda == 2           \* damp(..., 2.0, delta)
Sensitivity == 2500       \* 0.0025 rad per pixel
FrictionPercent == 98     \* friction = 0.98
StopEpsilon == 100        \* 0.0001
IdleThreshold == 1000     \* 0.001
FormedSpin == 1000        \* rotation.y += 0.001
RecenterPercent == 5      \* lerp(rotation.x, 0, 0.05)
ChaosYawDrift == 500      \* rotation.y += 0.0005
ChaosPitchDrift == 300    \* rotation.x += 0.0003
SwipeThreshold == 16      \* 0.008, in two-thousandths
SwipeGain == 600          \* 1.2 rad per unit = 600 millionths per two-thousandth

---------------------------------------------------------------------------
(* Progress controller: THREE.MathUtils.damp / lerp *)

\* Math.exp(-z), z in thousandths, for the products lambda * delta that occur.
ExpNeg(z) ==
    CASE z = 0     -> 10000
      [] z = 32    -> 9685
      [] z = 66    -> 9361
      [] z = 200   -> 8187
      [] z = 1000  -> 3679
      [] z = 2000  -> 1353
      [] OTHER     -> 0          \* z >= 40000: 1 - exp(-z) is 1.0 in doubles

lerpSignSlip(x, y, t) == RoundDiv((ONE + t) * x + t * y, ONE)

\* lerp(x, y, t) = (1 - t) * x + t * y
lerp(x, y, t) == RoundDiv((ONE - t) * x + t * y, ONE)

DampFactorFull(lambda, dt) == ONE

\* 1 - Math.exp(-lambda * dt)
DampFactor(lambda, dt) == ONE - ExpNeg(lambda * dt)

dampWithoutRate(x, y, lambda, dt) == lerp(x, y, DampFactor(0, dt))

dampTwice(x, y, lambda, dt) ==
    lerp(lerp(x, y, DampFactor(lambda, dt)), y, DampFactor(lambda, dt))

\* damp(x, y, lambda, dt) = lerp(x, y, 1 - exp(-lambda * dt))
damp(x, y, lambda, dt) == lerp(x, y, DampFactor(lambda, dt))

ProgressTargetInverted(state) == IF state = "FORMED" THEN 0 ELSE ONE

\* const target = state === TreeState.FORMED ? 1 : 0
ProgressTarget(state) == IF state = "FORMED" THEN ONE ELSE 0

---------------------------------------------------------------------------
(* Rotation physics of the frame callback *)

FrictionNoStop(v) == Times(v, FrictionPercent, 100)

FrictionNoDecay(v) == IF AbsBelow(v, StopEpsilon) THEN 0 ELSE v

\* velocity *= friction; if (Math.abs(velocity) < 0.0001) velocity = 0
Friction(v) ==
    LET w == Times(v, FrictionPercent, 100)
    IN  IF AbsBelow(w, StopEpsilon) THEN 0 ELSE w

IdleSpinUnconditional(r, vy, vx, state) ==
    IF state = "FORMED"
    THEN [y |-> Add(r.y, FormedSpin),
          x |-> Times(r.x, 100 - RecenterPercent, 100)]
    ELSE [y |-> Add(r.y, ChaosYawDrift), x |-> Add(r.x, ChaosPitchDrift)]

\* The rotation after the idle-spin block, from the integrated rotation r
\* and the velocities after friction.
IdleSpin(r, vy, vx, state) ==
    IF AbsBelow(vy, IdleThreshold) /\ AbsBelow(vx, IdleThreshold)
    THEN IF state = "FORMED"
         THEN [y |-> Add(r.y, FormedSpin),
               x |-> Times(r.x, 100 - RecenterPercent, 100)]
         ELSE [y |-> Add(r.y, ChaosYawDrift),
               x |-> Add(r.x, ChaosPitchDrift)]
    ELSE r

useFrameThroughDrag(delta) ==
    /\ progress' = damp(progress, ProgressTarget(treeState), DampLambda, delta)
    /\ LET r1 == [y |-> Add(rotation.y, velocityY),
                  x |-> Add(rotation.x, velocityX)]
           vy == Friction(velocityY)
           vx == Friction(velocityX)
       IN  /\ velocityY' = vy
           /\ velocityX' = vx
           /\ rotation' = IdleSpin(r1, vy, vx, treeState)
    /\ lastOp' = "useFrame"
    /\ lastArg' = [delta |-> delta]
    /\ emitted' = << >>
    /\ frame' = frame + 1
    /\ idleTicks' = idleTicks + 1
    /\ UNCHANGED << treeState, isDragging, lastPointer, previousHandX,
                    handTarget, polled, prevPolled, handFrames,
                    inputs, focusedPhotoIndex, meshVars, dustVars, viewVars >>

\* ChristmasTree's useFrame callback with frame time delta (ms).
useFrame(delta) ==
    /\ progress' = damp(progress, ProgressTarget(treeState), DampLambda, delta)
    /\ IF ~isDragging
       THEN LET r1 == [y |-> Add(rotation.y, velocityY),
                       x |-> Add(rotation.x, velocityX)]
                vy == Friction(velocityY)
                vx == Friction(velocityX)
            IN  /\ velocityY' = vy
                /\ velocityX' = vx
                /\ rotation' = IdleSpin(r1, vy, vx, treeState)
       ELSE UNCHANGED << velocityY, velocityX, rotation >>
    /\ lastOp' = "useFrame"
    /\ lastArg' = [delta |-> delta]
    /\ emitted' = << >>
    /\ frame' = frame + 1
    /\ idleTicks' = idleTicks + 1
    /\ UNCHANGED << treeState, isDragging, lastPointer, previousHandX,
                    handTarget, polled, prevPolled, handFrames,
                    inputs, focusedPhotoIndex, meshVars, dustVars, viewVars >>

---------------------------------------------------------------------------
(* The ribbon's frame callback.  Scale in ten-thousandths, rotation in     *)
(* millionths of a radian.                                                 *)

RibbonMinScale == 100     \* lerp(0.01, 1, progress)
RibbonSpin == 3000        \* rotation.y += 0.003

\* const scale = THREE.MathUtils.lerp(0.01, 1, progress)
RibbonScale(p) == lerp(RibbonMinScale, ONE, p)

RibbonVisibleAlways(state) == TRUE

\* meshRef.current.visible = state === TreeState.FORMED
RibbonVisible(state) == state = "FORMED"

\* Ribbon's useFrame callback.
ribbonFrame ==
    /\ ribbon' = [scale |-> RibbonScale(progress),
                  visible |-> RibbonVisible(treeState),
                  rotationY |-> ribbon.rotationY + RibbonSpin]
    /\ lastOp' = "ribbonFrame"
    /\ lastArg' = [event |-> "frame"]
    /\ emitted' = << >>
    /\ frame' = frame + 1
    /\ idleTicks' = idleTicks + 1
    /\ UNCHANGED << treeState, progress, velocityY, velocityX, rotation,
                    isDragging, lastPointer, previousHandX, handTarget,
                    polled, prevPolled, handFrames, inputs,
                    focusedPhotoIndex, generated, photoFrames, ornaments,
                    matrixWorld, dustVars, viewVars >>

---------------------------------------------------------------------------
(* Target placement by index.  Angles handed to Math.cos / Math.sin and to *)
(* Euler are radians; they are kept in millionths of a radian.             *)

GoldenNumber == 137500    \* the literal 137.5, in thousandths

\* x * (Math.PI / 180), x in thousandths, the result in millionths.
TimesPiOver180(x) == x * 17 + RoundDiv(x * 453, 1000)

\* Ornaments: const angle = i * 137.5 + (Math.random() * 0.5), used as
\* Math.cos(angle), Math.sin(angle) and as the Euler y rotation.
OrnamentAngle(i, jitter) == i * GoldenNumber * 1000 + jitter

\* Photo frames: const angle = i * 137.5 * (Math.PI / 180)
FrameAngle(i) == TimesPiOver180(i * GoldenNumber)

\* generateTransformData(count, type): the angles of targetData; jitter[i]
\* is the draw Math.random() * 0.5 of index i.
generateTransformData(count, type, jitter) ==
    /\ generated' = [kind |-> type,
                     angle |-> [i \in 0 .. (count - 1) |->
                                   OrnamentAngle(i, jitter[i])]]
    /\ lastOp' = "generateTransformData"
    /\ lastArg' = [count |-> count, type |-> type]
    /\ emitted' = << >>
    /\ inputs' = inputs + 1
    /\ UNCHANGED << treeState, progress, velocityY, velocityX, rotation,
                    isDragging, lastPointer, previousHandX, handTarget,
                    polled, prevPolled, handFrames, frame, idleTicks,
                    focusedPhotoIndex, ribbon, photoFrames, ornaments,
                    matrixWorld, dustVars, viewVars >>

\* PhotoFrames' frames memo for count frames: the angles of targetPos.
framesMemo(count) ==
    /\ generated' = [kind |-> "frame",
                     angle |-> [i \in 0 .. (count - 1) |-> FrameAngle(i)]]
    /\ lastOp' = "frames"
    /\ lastArg' = [count |-> count, type |-> "frame"]
    /\ emitted' = << >>
    /\ inputs' = inputs + 1
    /\ UNCHANGED << treeState, progress, velocityY, velocityX, rotation,
                    isDragging, lastPointer, previousHandX, handTarget,
                    polled, prevPolled, handFrames, frame, idleTicks,
                    focusedPhotoIndex, ribbon, photoFrames, ornaments,
                    matrixWorld, dustVars, viewVars >>

---------------------------------------------------------------------------
(* Ornaments: the frame callback that writes every instance's transform.   *)
(* Positions in thousandths of a world unit, Euler angles in hundredths of *)
(* a radian, scales in thousandths, the elapsed time in milliseconds.  A   *)
(* transform is kept as [pos, rot, scale], the three fields updateMatrix() *)
(* composes into the matrix that setMatrixAt stores; equal fields give     *)
(* equal matrices.                                                         *)

\* The two ornament kinds.
OrnamentTypes == {"sphere", "box"}

WobbleAmplitude == 3      \* (1 - progress) * 0.3, in tenths
TumbleAmplitude == 15     \* (1 - progress) * 1.5, in tenths

\* Math.sin(x), x in thousandths of a radian, in thousandths, for the
\* phases that occur.
Sin(x) ==
    CASE x = 0    -> 0
      [] x = 500  -> 479
      [] x = 1000 -> 841
      [] x = 1500 -> 997
      [] x = 2000 -> 909
      [] x = 2500 -> 598
      [] x = 3000 -> 141
      [] x = 3500 -> 0 - 351
      [] x = 4000 -> 0 - 757
      [] x = 4500 -> 0 - 978
      [] x = 5000 -> 0 - 959
      [] x = 5500 -> 0 - 706
      [] x = 6000 -> 0 - 279
      [] x = 6500 -> 215
      [] x = 7000 -> 657
      [] x = 7500 -> 938
      [] x = 8000 -> 989

\* Math.cos(x), x in thousandths of a radian, in thousandths.
Cos(x) ==
    CASE x = 0    -> 1000
      [] x = 500  -> 878
      [] x = 1000 -> 540
      [] x = 1500 -> 71
      [] x = 2000 -> 0 - 416
      [] x = 2500 -> 0 - 801
      [] x = 3000 -> 0 - 990
      [] x = 3500 -> 0 - 936
      [] x = 4000 -> 0 - 654
      [] x = 4500 -> 0 - 211
      [] x = 5000 -> 284

\* Vector3.lerpVectors(v1, v2, alpha): v1 + (v2 - v1) * alpha per component.
lerpVectors(v1, v2, alpha) ==
    [k \in 1 .. 3 |-> v1[k] + RoundDiv((v2[k] - v1[k]) * alpha, ONE)]

\* amplitude * wave, amplitude = (1 - p) * tenths / 10 rad, wave in
\* thousandths; the result in hundredths of a radian.
Swing(p, tenths, wave) == RoundDiv((ONE - p) * tenths * wave, 1000000)

SphereRotationFreeWobble(chaosRot, targetRot, p, time, i) ==
    LET wobble == RoundDiv(ONE * WobbleAmplitude * Sin(time \div 2 + i * 1000),
                           1000000)
    IN  [k \in 1 .. 3 |-> lerp(chaosRot[k], targetRot[k], p) + wobble]

\* Spheres: wobble = (1 - progress) * 0.3 * Math.sin(time * 0.5 + i);
\* rotation.set(lerp(chaos.rot.x + wobble, target.rot.x, progress), ...)
SphereRotation(chaosRot, targetRot, p, time, i) ==
    LET wobble == Swing(p, WobbleAmplitude, Sin(time \div 2 + i * 1000))
    IN  [k \in 1 .. 3 |-> lerp(chaosRot[k] + wobble, targetRot[k], p)]

\* Boxes: tumble = (1 - progress) * 1.5, turned by Math.sin(i + time * 0.2),
\* Math.cos(i + time * 0.2) and Math.sin(i * 0.5 + time * 0.2).
BoxRotation(chaosRot, targetRot, p, time, i) ==
    LET wave == << Sin(i * 1000 + time \div 5),
                   Cos(i * 1000 + time \div 5),
                   Sin(i * 500 + time \div 5) >>
    IN  [k \in 1 .. 3 |->
            lerp(chaosRot[k] + Swing(p, TumbleAmplitude, wave[k]),
                 targetRot[k], p)]

\* The transform of instance i of one mesh at progress p and elapsed time.
OrnamentTransform(type, chaos, target, p, time, i) ==
    [pos |-> lerpVectors(chaos.pos, target.pos, p),
     rot |-> IF type = "box"
             THEN BoxRotation(chaos.rot, target.rot, p, time, i)
             ELSE SphereRotation(chaos.rot, target.rot, p, time, i),
     scale |-> lerp(chaos.scale, target.scale, p)]

\* Ornaments' useFrame callback at elapsed time `time`: the spheres' loop,
\* then the boxes' loop.
ornamentsFrame(time) ==
    /\ ornaments' =
           [type \in DOMAIN ornaments |->
               [ornaments[type] EXCEPT
                   !.written =
                       [i \in DOMAIN ornaments[type].chaosData |->
                           OrnamentTransform(type,
                                             ornaments[type].chaosData[i],
                                             ornaments[type].targetData[i],
                                             progress, time, i)]]]
    /\ lastOp' = "ornamentsFrame"
    /\ lastArg' = [time |-> time]
    /\ emitted' = << >>
    /\ frame' = frame + 1
    /\ idleTicks' = idleTicks + 1
    /\ UNCHANGED << treeState, progress, velocityY, velocityX, rotation,
                    isDragging, lastPointer, previousHandX, handTarget,
                    polled, prevPolled, handFrames, inputs,
                    focusedPhotoIndex, ribbon, generated, photoFrames,
                    matrixWorld, dustVars, viewVars >>

---------------------------------------------------------------------------
(* Pointer handlers of the scene group *)

\* e.clientX || (e.touches && e.touches[0].clientX) for a pointer event,
\* which has no touches: a coordinate of 0 yields undefined.
ClientCoord(c) == IF c = 0 THEN NaN ELSE c

DragAcceptedAlways(defaultPrevented) == TRUE

\* if (e.defaultPrevented) return;
DragAccepted(defaultPrevented) == ~defaultPrevented

\* What a pointer-down can hit: the scene group's own meshes, or a photo
\* frame, which is a child of the group.
Hits == {"scene", "frame"}

\* e.defaultPrevented as the children of the group leave it: a photo frame
\* binds onClick, onPointerOver and onPointerOut and no pointer-down
\* handler, and nothing calls preventDefault.
ChildPreventsDefault(hit) == FALSE

handlePointerDownKeepsVelocity(hit, defaultPrevented, cx, cy) ==
    /\ IF ~DragAccepted(defaultPrevented)
       THEN UNCHANGED << isDragging, lastPointer >>
       ELSE /\ isDragging' = TRUE
            /\ lastPointer' = [x |-> ClientCoord(cx), y |-> ClientCoord(cy)]
    /\ lastOp' = "pointerdown"
    /\ lastArg' = [hit |-> hit, defaultPrevented |-> defaultPrevented,
                   clientX |-> cx, clientY |-> cy]
    /\ emitted' = << >>
    /\ inputs' = inputs + 1
    /\ idleTicks' = 0
    /\ UNCHANGED << treeState, progress, velocityY, velocityX, rotation,
                    previousHandX, handTarget, polled, prevPolled,
                    handFrames, frame, focusedPhotoIndex, meshVars, dustVars,
                    viewVars >>

\* The group's onPointerDown for an event that hit `hit` and bubbled up.
handlePointerDown(hit, defaultPrevented, cx, cy) ==
    /\ IF ~DragAccepted(defaultPrevented)
       THEN UNCHANGED << isDragging, lastPointer, velocityY, velocityX >>
       ELSE /\ isDragging' = TRUE
            /\ lastPointer' = [x |-> ClientCoord(cx), y |-> ClientCoord(cy)]
            /\ velocityY' = 0
            /\ velocityX' = 0
    /\ lastOp' = "pointerdown"
    /\ lastArg' = [hit |-> hit, defaultPrevented |-> defaultPrevented,
                   clientX |-> cx, clientY |-> cy]
    /\ emitted' = << >>
    /\ inputs' = inputs + 1
    /\ idleTicks' = 0
    /\ UNCHANGED << treeState, progress, rotation, previousHandX, handTarget,
                    polled, prevPolled, handFrames, frame,
                    focusedPhotoIndex, meshVars, dustVars, viewVars >>

\* velocityX.current after a move: only written in CHAOS.
MovePitchVelocity(state, deltaY, old) ==
    IF state = "CHAOS" THEN Times(deltaY, Sensitivity, 1) ELSE old

handlePointerMove(cx, cy) ==
    /\ IF ~isDragging
       THEN UNCHANGED << lastPointer, velocityY, velocityX, rotation >>
       ELSE LET clientX == ClientCoord(cx)
                clientY == ClientCoord(cy)
                deltaX == Sub(clientX, lastPointer.x)
                deltaY == Sub(clientY, lastPointer.y)
                vy == Times(deltaX, Sensitivity, 1)
                vx == MovePitchVelocity(treeState, deltaY, velocityX)
            IN  /\ lastPointer' = [x |-> clientX, y |-> clientY]
                /\ velocityY' = vy
                /\ velocityX' = vx
                /\ rotation' = [y |-> Add(rotation.y, vy),
                                x |-> Add(rotation.x, vx)]
    /\ lastOp' = "pointermove"
    /\ lastArg' = [clientX |-> cx, clientY |-> cy]
    /\ emitted' = << >>
    /\ inputs' = inputs + 1
    /\ idleTicks' = 0
    /\ UNCHANGED << treeState, progress, isDragging, previousHandX,
                    handTarget, polled, prevPolled, handFrames, frame,
                    focusedPhotoIndex, meshVars, dustVars, viewVars >>

\* The events bound to handlePointerUp: the group's onPointerUp and
\* onPointerLeave, the window's mouseup and touchend.
ReleaseEvents == {"pointerup", "pointerleave", "mouseup", "touchend"}

DraggingKept(dragging) == dragging

\* isDragging.current after handlePointerUp.
DraggingAfterUp(dragging) == FALSE

handlePointerUp(event) ==
    /\ isDragging' = DraggingAfterUp(isDragging)
    /\ lastOp' = event
    /\ lastArg' = [event |-> event]
    /\ emitted' = << >>
    /\ inputs' = inputs + 1
    /\ idleTicks' = 0
    /\ UNCHANGED << treeState, progress, velocityY, velocityX, rotation,
                    lastPointer, previousHandX, handTarget, polled,
                    prevPolled, handFrames, frame,
                    focusedPhotoIndex, meshVars, dustVars, viewVars >>

\* The overlay's toggle button: flips the tree state.
onToggle ==
    /\ treeState' = IF treeState = "CHAOS" THEN "FORMED" ELSE "CHAOS"
    /\ lastOp' = "toggle"
    /\ lastArg' = [event |-> "click"]
    /\ emitted' = << >>
    /\ inputs' = inputs + 1
    /\ idleTicks' = 0
    /\ UNCHANGED << progress, velocityY, velocityX, rotation, isDragging,
                    lastPointer, previousHandX, handTarget, polled,
                    prevPolled, handFrames, frame,
                    focusedPhotoIndex, meshVars, dustVars, viewVars >>

---------------------------------------------------------------------------
(* Photo-frame focus selection *)

NoFocus == 0 - 1          \* focusedPhotoIndex === null

PhotoCount == 3           \* frames of the scene (CONSTANTS.PHOTO_COUNT)

\* The frame indices of frames.map((frame, i) => ...).
Frames == 0 .. (PhotoCount - 1)

isFocusedWrapped(focusedIndex, i) == focusedIndex % PhotoCount = i

\* isFocused={focusedIndex === i}
isFocused(focusedIndex, i) == focusedIndex = i

FrameClickKeepsFocus(focusedIndex, i) ==
    IF focusedIndex = NoFocus THEN i
    ELSE IF focusedIndex = i THEN NoFocus ELSE focusedIndex

\* setFocusedIndex(focusedIndex === i ? null : i)
FrameClickSelection(focusedIndex, i) ==
    IF focusedIndex = i THEN NoFocus ELSE i

\* A photo frame's onClick.
onClick(i) ==
    /\ focusedPhotoIndex' = FrameClickSelection(focusedPhotoIndex, i)
    /\ lastOp' = "click"
    /\ lastArg' = [frame |-> i, focusedIndex |-> focusedPhotoIndex]
    /\ emitted' = << >>
    /\ inputs' = inputs + 1
    /\ idleTicks' = 0
    /\ UNCHANGED << treeState, progress, velocityY, velocityX, rotation,
                    isDragging, lastPointer, previousHandX, handTarget,
                    polled, prevPolled, handFrames, frame, meshVars,
                    dustVars, viewVars >>

BackgroundSelectionAlways(dragging, focusedIndex) == NoFocus

\* if (!isDragging.current && focusedPhotoIndex !== null)
\*     setFocusedPhotoIndex(null)
BackgroundSelection(dragging, focusedIndex) ==
    IF ~dragging /\ focusedIndex # NoFocus THEN NoFocus ELSE focusedIndex

\* The group's onPointerMissed.
onBackgroundClick ==
    /\ focusedPhotoIndex' = BackgroundSelection(isDragging, focusedPhotoIndex)
    /\ lastOp' = "pointermissed"
    /\ lastArg' = [event |-> "click"]
    /\ emitted' = << >>
    /\ inputs' = inputs + 1
    /\ idleTicks' = 0
    /\ UNCHANGED << treeState, progress, velocityY, velocityX, rotation,
                    isDragging, lastPointer, previousHandX, handTarget,
                    polled, prevPolled, handFrames, frame, meshVars,
                    dustVars, viewVars >>

\* A call of the setFocusedIndex prop with index i (NoFocus for null).
setFocusedIndex(i) ==
    /\ focusedPhotoIndex' = i
    /\ lastOp' = "setFocusedIndex"
    /\ lastArg' = [index |-> i]
    /\ emitted' = << >>
    /\ inputs' = inputs + 1
    /\ idleTicks' = 0
    /\ UNCHANGED << treeState, progress, velocityY, velocityX, rotation,
                    isDragging, lastPointer, previousHandX, handTarget,
                    polled, prevPolled, handFrames, frame, meshVars,
                    dustVars, viewVars >>

FocusScale == 25000       \* scale.lerp(new THREE.Vector3(2.5, 2.5, 2.5), 0.1)
FrameLerp == 1000         \* the blend factor 0.1 of the lerps and slerps
SwayThreshold == 8000     \* progress > 0.8

\* if (!isFocused && progress > 0.8): the breeze sway is added.
Sways(focused, p) == ~focused /\ p > SwayThreshold

\* if (isFocused && parentGroup.current): the focus override, else the
\* standard behaviour.  The scene group's ref is set once it is mounted.
FrameGoal(focused) == IF focused THEN "focus" ELSE "standard"

\* The scale the branch taken lerps towards.
GoalScale(goal) == IF goal = "focus" THEN FocusScale ELSE ONE

\* The scene group's origin in the world: the group around ChristmasTree
\* sits at [0, 2.8, 0].  Thousandths of a world unit.
GroupOrigin == << 0, 2800, 0 >>

\* const targetWorldPos = new THREE.Vector3(0, 2.0, 18)
FocusWorldPos == << 0, 2000, 18000 >>

\* Math.sin and Math.cos of an angle in millionths of a radian, in
\* ten-thousandths, by sin a = a and cos a = 1 - a * a / 2: right to the
\* last digit for the angles below 0.04 rad that occur.
SmallSin(a) == RoundDiv(a, 100)

SmallCos(a) == ONE - RoundDiv(RoundDiv(a, 100) * RoundDiv(a, 100), 2 * ONE)

\* v.applyMatrix4(m.clone().invert()) for the world matrix m of the scene
\* group, a translation to GroupOrigin after the Euler XYZ rotation
\* (m.x, m.y, 0): the translation is undone, then the pitch, then the yaw.
ApplyInverse(m, v) ==
    LET tx == v[1] - GroupOrigin[1]
        ty == v[2] - GroupOrigin[2]
        tz == v[3] - GroupOrigin[3]
        py == RoundDiv(ty * SmallCos(m.x) + tz * SmallSin(m.x), ONE)
        pz == RoundDiv(tz * SmallCos(m.x) - ty * SmallSin(m.x), ONE)
    IN  << RoundDiv(tx * SmallCos(m.y) - pz * SmallSin(m.y), ONE),
           py,
           RoundDiv(tx * SmallSin(m.y) + pz * SmallCos(m.y), ONE) >>

\* One frame's chaosPos and targetPos: a chaos point between 15 and 25 from
\* the origin and a target point on the cone, different for every index.
FrameData(i) ==
    [chaosPos |-> << 15000 + 1000 * i, 0 - 4000 * i, 9000 >>,
     targetPos |-> << 2000 - 300 * i, 1000 * i - 3000, 1500 + 200 * i >>]

FramePosGoalBlendOnly(focused, i, p, m) ==
    lerpVectors(FrameData(i).chaosPos, FrameData(i).targetPos, p)

\* The point the group's position lerps towards: targetLocalPos in the
\* focus override, vec3Dummy in the standard behaviour.
FramePosGoal(focused, i, p, m) ==
    IF focused
    THEN ApplyInverse(m, FocusWorldPos)
    ELSE lerpVectors(FrameData(i).chaosPos, FrameData(i).targetPos, p)

\* SingleFrame's useFrame callback of frame i.  The quaternion slerps
\* towards the goal the fields goal and sway name: the look-at of the
\* camera in the focus override, else the slerp of qChaos and qTarget at
\* progress, times the sway turn when sway is set.
singleFrame(i) ==
    LET focused == isFocused(focusedPhotoIndex, i)
        goal == FrameGoal(focused)
    IN  /\ photoFrames' =
               [photoFrames EXCEPT
                   ![i] = [goal |-> goal,
                           sway |-> Sways(focused, progress),
                           scale |-> lerp(photoFrames[i].scale,
                                          GoalScale(goal), FrameLerp),
                           pos |-> lerpVectors(photoFrames[i].pos,
                                               FramePosGoal(focused, i,
                                                            progress,
                                                            matrixWorld),
                                               FrameLerp)]]
        /\ lastOp' = "singleFrame"
        /\ lastArg' = [index |-> i]
        /\ emitted' = << >>
        /\ frame' = frame + 1
        /\ idleTicks' = idleTicks + 1
        /\ UNCHANGED << treeState, progress, velocityY, velocityX, rotation,
                        isDragging, lastPointer, previousHandX, handTarget,
                        polled, prevPolled, handFrames, inputs,
                        focusedPhotoIndex, ribbon, generated, ornaments,
                        matrixWorld, dustVars, viewVars >>

\* The renderer draws the scene after the frame callbacks: the scene
\* group's matrixWorld is composed from its rotation.
render ==
    /\ matrixWorld' = rotation
    /\ lastOp' = "render"
    /\ lastArg' = [event |-> "render"]
    /\ emitted' = << >>
    /\ UNCHANGED << treeState, progress, velocityY, velocityX, rotation,
                    isDragging, lastPointer, previousHandX, handTarget,
                    polled, prevPolled, handFrames, frame, inputs, idleTicks,
                    focusedPhotoIndex, ribbon, generated, photoFrames,
                    ornaments, dustVars, viewVars >>

---------------------------------------------------------------------------
(* Ambient dust: MagicalDust's frame callback for one particle.  Positions *)
(* and velocities are in millionths of a world unit, the pointer and the   *)
(* hand target in two-thousandths of NDC, the viewport in world units.     *)

FloorY == 0 - 15000000        \* py < -15
CeilingY == 15000000          \* positions[idx + 1] = 15
TargetZ == 8000000            \* targetZ = 8
AttractRadiusSq == 200        \* distSq < 200
Gravity == 100                \* velocities[idx + 1] -= 0.0001
HandPull == 10                \* force 0.005 * 0.02, in hundred-thousandths
PointerPull == 16             \* force 0.008 * 0.02, in hundred-thousandths
SwirlPerMille == 2            \* dy * 0.002, dx * 0.002
DragPercent == 97             \* velocities *= 0.97
HaltPercent == 95             \* velocities *= 0.95

DustTargetPointerFirst(hand, ptr, viewport) ==
    IF ptr.x # 0 \/ ptr.y # 0
    THEN [x |-> ptr.x * viewport.width * 250,
          y |-> ptr.y * viewport.height * 250, isActive |-> TRUE]
    ELSE IF hand.active
    THEN [x |-> hand.x * viewport.width * 250,
          y |-> hand.y * viewport.height * 250, isActive |-> TRUE]
    ELSE [x |-> 0, y |-> 0, isActive |-> FALSE]

\* The attraction point and whether attraction is active: the hand when
\* it is active, else the pointer once it has left (0, 0), else none.
DustTarget(hand, ptr, viewport) ==
    IF hand.active
    THEN [x |-> hand.x * viewport.width * 250,
          y |-> hand.y * viewport.height * 250, isActive |-> TRUE]
    ELSE IF ptr.x # 0 \/ ptr.y # 0
    THEN [x |-> ptr.x * viewport.width * 250,
          y |-> ptr.y * viewport.height * 250, isActive |-> TRUE]
    ELSE [x |-> 0, y |-> 0, isActive |-> FALSE]

\* distSq < 200, the squares taken in hundredths of a world unit.
WithinReach(dx, dy, dz) ==
    LET hx == RoundDiv(dx, 10000)
        hy == RoundDiv(dy, 10000)
        hz == RoundDiv(dz, 10000)
    IN  hx * hx + hy * hy + hz * hz < AttractRadiusSq * 10000

\* const force = handTarget.current.active ? 0.005 : 0.008, times 0.02.
DustPull(handActive) == IF handActive THEN HandPull ELSE PointerPull

DustVelocityNoHalt(p, target, handActive, turbulence) ==
    [vx |-> p.vx + turbulence[1],
     vy |-> p.vy - Gravity + turbulence[2],
     vz |-> p.vz + turbulence[3]]

\* The particle's velocity after the halt or the attraction block.
DustVelocity(p, target, handActive, turbulence) ==
    IF ~target.isActive
    THEN [vx |-> Times(p.vx, HaltPercent, 100),
          vy |-> Times(p.vy, HaltPercent, 100),
          vz |-> Times(p.vz, HaltPercent, 100)]
    ELSE LET dx == target.x - p.px
             dy == target.y - p.py
             dz == TargetZ - p.pz
             pull == DustPull(handActive)
             near == WithinReach(dx, dy, dz)
             ax == IF near THEN Times(dx, pull, 100000)
                                  + Times(dy, SwirlPerMille, 1000)
                   ELSE 0
             ay == IF near THEN Times(dy, pull, 100000)
                                  - Times(dx, SwirlPerMille, 1000)
                   ELSE 0
             az == IF near THEN Times(dz, pull, 100000) ELSE 0
         IN  [vx |-> Times(p.vx + ax + turbulence[1], DragPercent, 100),
              vy |-> Times(p.vy - Gravity + ay + turbulence[2],
                           DragPercent, 100),
              vz |-> Times(p.vz + az + turbulence[3], DragPercent, 100)]

\* if (py < -15), py being the position read before the integration.
Respawns(py) == py < FloorY

\* One pass of the particle loop: velocity update, integration, respawn.
DustStep(p, target, handActive, turbulence, spawn) ==
    LET v == DustVelocity(p, target, handActive, turbulence)
    IN  IF Respawns(p.py)
        THEN [px |-> spawn.x, py |-> CeilingY, pz |-> spawn.z,
              vx |-> 0, vy |-> 0, vz |-> 0]
        ELSE [px |-> p.px + v.vx, py |-> p.py + v.vy, pz |-> p.pz + v.vz,
              vx |-> v.vx, vy |-> v.vy, vz |-> v.vz]

\* MagicalDust's useFrame callback.  viewport: the renderer's viewport;
\* turbulence: the three (Math.random() - 0.5) * 0.001 draws; spawn: the
\* two (Math.random() - 0.5) * 20 draws of a respawn.
dustFrame(viewport, turbulence, spawn) ==
    /\ particle' = DustStep(particle,
                            DustTarget(handTarget, pointer, viewport),
                            handTarget.active, turbulence, spawn)
    /\ lastOp' = "dustFrame"
    /\ lastArg' = [viewport |-> viewport,
                   target |-> DustTarget(handTarget, pointer, viewport),
                   pull |-> DustPull(handTarget.active)]
    /\ emitted' = << >>
    /\ frame' = frame + 1
    /\ idleTicks' = idleTicks + 1
    /\ UNCHANGED << treeState, progress, velocityY, velocityX, rotation,
                    isDragging, lastPointer, previousHandX, handTarget,
                    polled, prevPolled, handFrames, inputs,
                    focusedPhotoIndex, meshVars, pointer, viewVars >>

\* The renderer records a pointer move over the canvas.
movePointer(ndc) ==
    /\ pointer' = ndc
    /\ lastOp' = "canvasmove"
    /\ lastArg' = [pointer |-> ndc]
    /\ emitted' = << >>
    /\ inputs' = inputs + 1
    /\ idleTicks' = 0
    /\ UNCHANGED << treeState, progress, velocityY, velocityX, rotation,
                    isDragging, lastPointer, previousHandX, handTarget,
                    polled, prevPolled, handFrames, frame,
                    focusedPhotoIndex, meshVars, particle, viewVars >>

---------------------------------------------------------------------------
(* Window event listeners *)

NoHand == 0 - 1           \* previousHandX.current === null

Event(name, x, y, active, velocity) ==
    [name |-> name, x |-> x, y |-> y, active |-> active, velocity |-> velocity]

HandMoveEvent(x, y, active) == Event("hand-move", x, y, active, 0)

TreeSpinEvent(velocity) == Event("tree-spin", 0, 0, FALSE, velocity)

onHandMoveActiveOnly(target, e) ==
    IF e.active THEN [x |-> e.x, y |-> e.y, active |-> TRUE] ELSE target

\* MagicalDust's hand-move listener: the hand target after event e.
onHandMove(target, e) ==
    IF e.active
    THEN [x |-> e.x, y |-> e.y, active |-> TRUE]
    ELSE [target EXCEPT !.active = FALSE]

\* A hand-move event dispatched on the window while the dust is mounted:
\* MagicalDust's listener is the only one registered for it.
handMove(e) ==
    /\ handTarget' = onHandMove(handTarget, e)
    /\ lastOp' = "hand-move"
    /\ lastArg' = [event |-> e]
    /\ emitted' = << >>
    /\ inputs' = inputs + 1
    /\ idleTicks' = 0
    /\ UNCHANGED << treeState, progress, velocityY, velocityX, rotation,
                    isDragging, lastPointer, previousHandX, polled,
                    prevPolled, handFrames, frame, focusedPhotoIndex, meshVars,
                    dustVars, viewVars >>

onSpinWhileDragging(vy, dragging, e) == Add(vy, e.velocity)

\* ChristmasTree's tree-spin listener: the yaw velocity after event e.
onSpin(vy, dragging, e) ==
    IF ~dragging THEN Add(vy, e.velocity) ELSE vy

---------------------------------------------------------------------------
(* Gesture-to-state mapper: predictWebcam *)

GestureStateSwapped(categoryName, state) ==
    IF categoryName = "Open_Palm" THEN "FORMED"
    ELSE IF categoryName = "Closed_Fist" THEN "CHAOS"
    ELSE state

GestureStateFistOnly(categoryName, state) ==
    IF categoryName = "Closed_Fist" THEN "FORMED" ELSE state

\* setTreeState by the recognised category.
GestureState(categoryName, state) ==
    IF categoryName = "Open_Palm" THEN "CHAOS"
    ELSE IF categoryName = "Closed_Fist" THEN "FORMED"
    ELSE state

\* handX = 1 - centerX, centerX = (wrist.x + middleFinger.x) / 2.
MirroredHandX(hand) == 2000 - (hand.wrist.x + hand.middle.x)

\* ndcX = (1 - centerX) * 2 - 1
NdcX(hand) == (2000 - (hand.wrist.x + hand.middle.x)) * 2 - 2000

\* ndcY = -(centerY * 2 - 1)
NdcY(hand) == 0 - ((hand.wrist.y + hand.middle.y) * 2 - 2000)

IsSwipeInclusive(delta) == Abs(delta) >= SwipeThreshold

\* Whether the frame-to-frame change counts as a swipe.
IsSwipe(delta) == Abs(delta) > SwipeThreshold

\* The tree-spin events of a detected-hand frame.
SwipeEvents(prev, handX) ==
    IF prev # NoHand /\ IsSwipe(handX - prev)
    THEN << TreeSpinEvent((handX - prev) * SwipeGain) >>
    ELSE << >>

\* The `if (results && results.gestures.length > 0 && ...)` test.
HandDetected(results) ==
    /\ ~results.threw
    /\ Len(results.gestures) > 0
    /\ Len(results.landmarks) > 0

\* The swipe-tracking position after a detected-hand frame.
TrackedHandX(handX) == handX

LostHandXKept(prev) == prev

\* The swipe-tracking position after a frame without a hand.
LostHandX(prev) == NoHand

\* What recognizeForVideo yields when no hand is in view.
NoResults == [threw |-> FALSE, gestures |-> << >>, landmarks |-> << >>]

NotRescheduled(requests, request, id) == requests \ {request}

\* The animation-frame requests pending after the callback of `request`
\* (0: a direct call) has run and requestAnimationFrame has returned id.
Rescheduled(requests, request, id) == (requests \ {request}) \cup {id}

ProcessesAlways(video, recognizer, fresh) == TRUE

\* if (video && recognizer && video.readyState >= 2) and
\* if (video.currentTime !== lastVideoTimeRef.current): the poll hands a
\* video frame to the recognizer.
Processes(video, recognizer, fresh) == video /\ recognizer /\ fresh

\* One run of predictWebcam.  request: the animation-frame request that
\* runs it, 0 for the direct call; fresh: video.readyState >= 2 and the
\* video time changed; results: what recognizeForVideo returned (threw:
\* it raised and results is undefined).
predictWebcamRun(request, fresh, results) ==
    /\ IF ~Processes(videoRef, gestureRecognizerRef, fresh)
       THEN /\ UNCHANGED << treeState, handTarget, velocityY, previousHandX,
                            polled, prevPolled, handFrames >>
            /\ emitted' = << >>
       ELSE /\ polled' = results
            /\ prevPolled' = polled
            /\ IF HandDetected(results)
               THEN LET categoryName == results.gestures[1]
                        hand == results.landmarks[1]
                        handX == MirroredHandX(hand)
                        move == HandMoveEvent(NdcX(hand), NdcY(hand), TRUE)
                        spins == SwipeEvents(previousHandX, handX)
                    IN  /\ treeState' = GestureState(categoryName, treeState)
                        /\ handTarget' = onHandMove(handTarget, move)
                        /\ velocityY' =
                              IF spins = << >> THEN velocityY
                              ELSE onSpin(velocityY, isDragging, spins[1])
                        /\ previousHandX' = TrackedHandX(handX)
                        /\ emitted' = << move >> \o spins
                        /\ handFrames' = handFrames + 1
               ELSE LET move == HandMoveEvent(0, 0, FALSE)
                    IN  /\ previousHandX' = LostHandX(previousHandX)
                        /\ handTarget' = onHandMove(handTarget, move)
                        /\ emitted' = << move >>
                        /\ UNCHANGED << treeState, velocityY, handFrames >>
    /\ requestRef' = nextRequest
    /\ scheduled' = Rescheduled(scheduled, request, nextRequest)
    /\ nextRequest' = nextRequest + 1
    /\ inputs' = inputs + 1
    /\ idleTicks' = 0
    /\ UNCHANGED << progress, velocityX, rotation, isDragging, lastPointer,
                    frame, focusedPhotoIndex, meshVars, dustVars, mounted,
                    initStep,
                    videoRef, gestureRecognizerRef, streamRef, tracks >>

\* predictWebcam as the callback of animation-frame request `request`.
predictWebcam(request, fresh, results) ==
    /\ request \in scheduled
    /\ predictWebcamRun(request, fresh, results)
    /\ lastOp' = "poll"
    /\ lastArg' = [fresh |-> fresh]
    /\ UNCHANGED metadataHandler

---------------------------------------------------------------------------
(* Life cycle of the gesture view: the effect's init() and its cleanup *)

\* init() resumes after FilesetResolver.forVisionTasks; ok: it resolved.
initAfterFileset(ok) ==
    /\ initStep = "resolver"
    /\ initStep' = IF ok /\ mounted THEN "model" ELSE "done"
    /\ lastOp' = "fileset"
    /\ lastArg' = [ok |-> ok]
    /\ emitted' = << >>
    /\ UNCHANGED << treeState, progress, velocityY, velocityX, rotation,
                    isDragging, lastPointer, previousHandX, handTarget,
                    polled, prevPolled, handFrames, frame, inputs,
                    idleTicks, focusedPhotoIndex, meshVars, dustVars, mounted,
                    videoRef, gestureRecognizerRef, streamRef, tracks,
                    metadataHandler, requestRef, scheduled, nextRequest >>

\* init() resumes after GestureRecognizer.createFromOptions; hasCamera:
\* navigator.mediaDevices.getUserMedia exists.
initAfterModel(ok, hasCamera) ==
    /\ initStep = "model"
    /\ gestureRecognizerRef' = (ok \/ gestureRecognizerRef)
    /\ initStep' = IF ok /\ mounted /\ hasCamera THEN "camera" ELSE "done"
    /\ lastOp' = "model"
    /\ lastArg' = [ok |-> ok]
    /\ emitted' = << >>
    /\ UNCHANGED << treeState, progress, velocityY, velocityX, rotation,
                    isDragging, lastPointer, previousHandX, handTarget,
                    polled, prevPolled, handFrames, frame, inputs,
                    idleTicks, focusedPhotoIndex, meshVars, dustVars, mounted,
                    videoRef, streamRef, tracks, metadataHandler,
                    requestRef, scheduled, nextRequest >>

LateStreamLeftLive(isMounted) == "live"

\* The tracks of the stream getUserMedia resolved with, after the
\* `if (!mounted)` block.
StreamTracks(isMounted) == IF isMounted THEN "live" ELSE "stopped"

\* init() resumes after getUserMedia; ok: it resolved with a stream.
initAfterCamera(ok) ==
    /\ initStep = "camera"
    /\ initStep' = "done"
    /\ IF ~ok
       THEN UNCHANGED << tracks, streamRef, metadataHandler >>
       ELSE /\ tracks' = StreamTracks(mounted)
            /\ streamRef' = (mounted \/ streamRef)
            /\ metadataHandler' = ((mounted /\ videoRef) \/ metadataHandler)
    /\ lastOp' = "camera"
    /\ lastArg' = [ok |-> ok]
    /\ emitted' = << >>
    /\ UNCHANGED << treeState, progress, velocityY, velocityX, rotation,
                    isDragging, lastPointer, previousHandX, handTarget,
                    polled, prevPolled, handFrames, frame, inputs,
                    idleTicks, focusedPhotoIndex, meshVars, dustVars, mounted,
                    videoRef, gestureRecognizerRef, requestRef, scheduled,
                    nextRequest >>

\* The video's onloadedmetadata handler: starts the polling loop with a
\* direct call of predictWebcam when the video element is still attached.
onloadedmetadata(fresh, results) ==
    /\ metadataHandler
    /\ metadataHandler' = FALSE
    /\ IF videoRef
       THEN predictWebcamRun(0, fresh, results)
       ELSE /\ emitted' = << >>
            /\ UNCHANGED << treeState, progress, velocityY, velocityX,
                            rotation, isDragging, lastPointer,
                            previousHandX, handTarget, polled, prevPolled,
                            handFrames, frame, inputs, idleTicks,
                            focusedPhotoIndex, meshVars, dustVars, mounted, initStep,
                            videoRef, gestureRecognizerRef, streamRef,
                            tracks, requestRef, scheduled, nextRequest >>
    /\ lastOp' = "loadedmetadata"
    /\ lastArg' = [fresh |-> fresh]

\* The view is removed: React sets the video element's ref to null, then
\* runs the effect's cleanup.
detachVideo ==
    /\ videoRef
    /\ videoRef' = FALSE
    /\ lastOp' = "unmount"
    /\ lastArg' = [event |-> "unmount"]
    /\ emitted' = << >>
    /\ UNCHANGED << treeState, progress, velocityY, velocityX, rotation,
                    isDragging, lastPointer, previousHandX, handTarget,
                    polled, prevPolled, handFrames, frame, inputs,
                    idleTicks, focusedPhotoIndex, meshVars, dustVars, mounted,
                    initStep, gestureRecognizerRef, streamRef, tracks,
                    metadataHandler, requestRef, scheduled, nextRequest >>

CancelNothing(requests, ref) == requests

\* if (requestRef.current) cancelAnimationFrame(requestRef.current)
Cancelled(requests, ref) == IF ref # 0 THEN requests \ {ref} ELSE requests

\* The effect's cleanup function.
cleanup ==
    /\ ~videoRef
    /\ mounted
    /\ mounted' = FALSE
    /\ scheduled' = Cancelled(scheduled, requestRef)
    /\ tracks' = IF streamRef THEN "stopped" ELSE tracks
    /\ lastOp' = "cleanup"
    /\ lastArg' = [event |-> "unmount"]
    /\ emitted' = << >>
    /\ UNCHANGED << treeState, progress, velocityY, velocityX, rotation,
                    isDragging, lastPointer, previousHandX, handTarget,
                    polled, prevPolled, handFrames, frame, inputs,
                    idleTicks, focusedPhotoIndex, meshVars, dustVars, initStep,
                    videoRef, gestureRecognizerRef, streamRef,
                    metadataHandler, requestRef, nextRequest >>

---------------------------------------------------------------------------
(* Initial state: the refs and state as the components construct them.    *)
(* The tree state is owned by the application shell, which starts it in    *)
(* CHAOS.                                                                  *)

\* A dust particle at rest at the origin: one draw of the constructor's
\* (Math.random() - 0.5) * 25 per coordinate, velocity 0.
HomeParticle == [px |-> 0, py |-> 0, pz |-> 0, vx |-> 0, vy |-> 0, vz |-> 0]

\* The instance matrix before the first frame callback: the identity.
IdentityTransform == [pos |-> << 0, 0, 0 >>, rot |-> << 0, 0, 0 >>, scale |-> 1000]

\* Ornaments as constructed from one set of Math.random() draws: count
\* spheres and count boxes, entity i with the target rotation
\* Euler(0, angle, 0) of its index, nothing written yet.
OrnamentsConstructed(draw, count) ==
    [type \in OrnamentTypes |->
        [chaosData |-> [i \in 0 .. (count - 1) |->
                           [pos |-> draw.chaosPos, rot |-> draw.chaosRot,
                            scale |-> draw.chaosScale]],
         targetData |-> [i \in 0 .. (count - 1) |->
                            [pos |-> draw.targetPos,
                             rot |-> << 0,
                                        RoundDiv(OrnamentAngle(i, draw.jitter),
                                                 10000),
                                        0 >>,
                             scale |-> draw.targetScale]],
         written |-> [i \in 0 .. (count - 1) |-> IdentityTransform]]]

\* One set of draws: a chaos point 15.8 from the origin with rotations
\* below pi / 2, a target point on the cone.
HomeDraw ==
    [chaosPos |-> << 9000, 12000, 0 - 5000 >>, chaosRot |-> << 30, 100, 150 >>,
     chaosScale |-> 500, targetPos |-> << 1500, 2000, 0 - 800 >>,
     targetScale |-> 650, jitter |-> 250000]

HomeOrnaments == OrnamentsConstructed(HomeDraw, 1)

\* ChristmasTree and MagicalDust as constructed, the dust particle and the
\* ornaments aside.
SceneConstructed ==
    /\ treeState = "CHAOS"
    /\ progress = 0
    /\ velocityY = 0
    /\ velocityX = 0
    /\ rotation = [x |-> 0, y |-> 0]
    /\ isDragging = FALSE
    /\ lastPointer = [x |-> 0, y |-> 0]
    /\ previousHandX = NoHand
    /\ handTarget = [x |-> 0, y |-> 0, active |-> FALSE]
    /\ emitted = << >>
    /\ polled = NoResults
    /\ prevPolled = NoResults
    /\ handFrames = 0
    /\ lastOp = "init"
    /\ lastArg = [event |-> "init"]
    /\ frame = 0
    /\ inputs = 0
    /\ idleTicks = 0
    /\ focusedPhotoIndex = NoFocus
    /\ ribbon = [scale |-> ONE, visible |-> TRUE, rotationY |-> 0]
    /\ generated = [kind |-> "none", angle |-> << >>]
    /\ photoFrames = [i \in Frames |->
                         [goal |-> "none", sway |-> FALSE, scale |-> ONE,
                          pos |-> << 0, 0, 0 >>]]
    /\ matrixWorld = [x |-> 0, y |-> 0]
    /\ pointer = [x |-> 0, y |-> 0]

\* GestureController after its first commit: the video element is
\* attached, the effect has set mounted and init() waits for the fileset.
ViewConstructed ==
    /\ mounted = TRUE
    /\ initStep = "resolver"
    /\ videoRef = TRUE
    /\ gestureRecognizerRef = FALSE
    /\ streamRef = FALSE
    /\ tracks = "none"
    /\ metadataHandler = FALSE
    /\ requestRef = 0
    /\ scheduled = {}
    /\ nextRequest = 1

Init ==
    /\ SceneConstructed
    /\ particle = HomeParticle
    /\ ornaments = HomeOrnaments
    /\ ViewConstructed

\* GestureController once init() has run through, the metadata handler
\* has made the direct call of predictWebcam and that call has requested
\* the first animation frame.
ViewPolling ==
    /\ mounted = TRUE
    /\ initStep = "done"
    /\ videoRef = TRUE
    /\ gestureRecognizerRef = TRUE
    /\ streamRef = TRUE
    /\ tracks = "live"
    /\ metadataHandler = FALSE
    /\ requestRef = 1
    /\ scheduled = {1}
    /\ nextRequest = 2

InitPolling ==
    /\ SceneConstructed
    /\ particle = HomeParticle
    /\ ornaments = HomeOrnaments
    /\ ViewPolling

---------------------------------------------------------------------------
(* Bounds and input sets *)

MaxFrames == 6            \* frame callbacks of the progress specification
MaxToggles == 4           \* external events of the progress specification
MaxPolls == 4             \* external events of the gesture specification
MaxDragInputs == 4        \* external events of the drag specification
MaxDragFrames == 3        \* frame callbacks of the drag specification
MaxDecayInputs == 4       \* external events of the inertia specification
InputWindow == 2          \* inertia specification: inputs arrive before this frame
DecayHorizon == 360       \* inertia specification: frame callbacks in all
DecayBound == 345         \* frames within which a released velocity of at
                          \* most 0.1 rad per frame has come to rest
MaxFocusInputs == 5       \* external events of the focus specification
MaxDustFrames == 16       \* frame callbacks of the dust specification
MaxDustInputs == 1        \* pointer moves of the dust specification
MaxViewPolls == 3         \* predictWebcam runs of the life-cycle specification
ConvergeTicks == 312      \* 60 Hz frame callbacks in 4.992 s
ConvergeEpsilon == 20     \* 0.002 of progress
MaxRibbonFrames == 5      \* frame callbacks of the ribbon specification
MaxPlaced == 4            \* entities of a placed population
MaxPlacements == 2        \* generator runs of the placement specification
MaxFrameInputs == 2       \* external events of the photo-frame specification
MaxFrameTicks == 3        \* frame callbacks of the photo-frame specification
MaxWriterInputs == 3      \* external events of the writers specification
MaxWriterFrames == 3      \* frame callbacks of the writers specification
MaxRecentreInputs == 4    \* external events of the recentring specification
RecentreHorizon == 300    \* recentring specification: frame callbacks in all
PitchEpsilon == 1000      \* 0.001 rad of pitch
MaxAttractFrames == 5     \* frame callbacks of the attraction specification
MaxAttractInputs == 3     \* hand and pointer events of the attraction specification
MaxOrnaments == 2         \* instances of each ornament mesh
MaxOrnamentFrames == 4    \* frame callbacks of the ornament specification

\* Frame times (ms): a zero step, 60 Hz, a slow frame, half a second, and a
\* resumed background tab.
DeltaTimes == {0, 16, 100, 500, 20000}

\* The steady 60 Hz frame time (ms).
SteadyDeltas == {16}

\* The frame time after the tab was in the background (ms).
LongDeltas == {20000}

\* Frame times (ms) that take progress across 0.8 within two callbacks,
\* and to its target in one.
AssemblyDeltas == {500, 20000}

Gestures == {"Open_Palm", "Closed_Fist", "Victory"}

\* Landmark coordinates (thousandths): the mirrored positions they give
\* differ by 0.002, 0.003, 0.008 (the threshold itself), 0.01 and more.
WristXs == {400, 416}
MiddleXs == {400, 404, 410, 430}
WristYs == {300}
MiddleYs == {340}

Hands ==
    { [wrist |-> [x |-> wx, y |-> wy], middle |-> [x |-> mx, y |-> my]] :
        wx \in WristXs, wy \in WristYs, mx \in MiddleXs, my \in MiddleYs }

Results ==
    { [threw |-> FALSE, gestures |-> << g >>, landmarks |-> << h >>] :
        g \in Gestures, h \in Hands }
    \cup { [threw |-> FALSE, gestures |-> << >>, landmarks |-> << >>],
           [threw |-> TRUE, gestures |-> << >>, landmarks |-> << >>] }
    \cup { [threw |-> FALSE, gestures |-> << >>, landmarks |-> << h >>] :
             h \in { hh \in Hands : hh.wrist.x = 400 /\ hh.middle.x = 400
                                    /\ hh.wrist.y = 300 } }

\* Recognition results of the life-cycle specification: a palm, a fist
\* 0.015 further along, no hand, and a failed recognition.
ViewResults ==
    { [threw |-> FALSE, gestures |-> << "Open_Palm" >>,
       landmarks |-> << [wrist |-> [x |-> 400, y |-> 300],
                         middle |-> [x |-> 400, y |-> 340]] >>],
      [threw |-> FALSE, gestures |-> << "Closed_Fist" >>,
       landmarks |-> << [wrist |-> [x |-> 400, y |-> 300],
                         middle |-> [x |-> 430, y |-> 340]] >>],
      [threw |-> FALSE, gestures |-> << >>, landmarks |-> << >>],
      [threw |-> TRUE, gestures |-> << >>, landmarks |-> << >>] }

PointerXs == {0, 100, 140}
PointerYs == {0, 50, 90}

\* Where a photo frame is pressed.
FramePressXs == {100}
FramePressYs == {50}

DecayXs == {0, 100, 140}
DecayYs == {50, 90}

\* The renderer's viewport at the scene origin (world units).
Viewports == { [width |-> 32, height |-> 18] }

\* Pointer positions (NDC, two-thousandths): the untouched (0, 0) and a
\* point at the lower edge, right of the centre.
PointerNdcs == { [x |-> 0, y |-> 0], [x |-> 180, y |-> 0 - 2000] }

\* Hand-move events: a palm centre left of and below the middle of the
\* picture, and the loss of the hand.
DustHandEvents == { HandMoveEvent(0 - 1400, 0 - 1300, TRUE),
                    HandMoveEvent(0, 0, FALSE) }

\* Draws of the turbulence, per axis within [-0.0005, 0.0005).
Turbulences == { << 0, 0, 0 >>, << 400, 0 - 500, 0 - 300 >> }

\* Draws of a respawn's x and z, within [-10, 10).
Spawns == { [x |-> 0, z |-> 0], [x |-> 0 - 10000000, z |-> 9000000] }

\* Draws of the constructor: positions within [-12.5, 12.5), at rest.
StartParticles ==
    { HomeParticle,
      [px |-> 0 - 12000000, py |-> 0 - 12400000, pz |-> 8000000,
       vx |-> 0, vy |-> 0, vz |-> 0] }

\* The second constructor draw after fourteen frame callbacks with the
\* pointer at (0.09, -1): 0.26 above the floor and falling by 0.29 a frame.
FallingParticle ==
    [px |-> 0 - 11119907, py |-> 0 - 14739577, pz |-> 7999153,
     vx |-> 119081, vy |-> 0 - 288937, vz |-> 0 - 274]

\* Particles of the attraction specification: the constructor's draws, and
\* the falling particle at the moment the pointer is back at (0, 0).
AttractParticles == StartParticles \cup { FallingParticle }

\* Draws of an ornament's angular jitter, within [0, 0.5) rad.
AngleJitters == {0, 250000, 499999}

\* Indices no frame has: the population size and beyond.
StaleIndexes == { PhotoCount, PhotoCount + 1 }

\* Values the focus selection is set to.
SelectedIndexes == Frames \cup StaleIndexes \cup { NoFocus }

\* Client coordinates of the recentring specification: moves of 4 pixels
\* (0.01 rad per frame), and the top edge of the viewport.
RecentreXs == {100, 104}
RecentreYs == {0, 50, 54}

\* Readings of the clock's elapsed time (ms).
ElapsedTimes == {0, 5000, 10000}

\* Draws of the ornament generator: chaos points between 12 and 20 from the
\* origin, chaos rotations below pi / 2, scales within both kinds' ranges.
OrnamentDraws ==
    { HomeDraw,
      [chaosPos |-> << 0 - 14000, 3000, 11000 >>,
       chaosRot |-> << 0, 157, 78 >>, chaosScale |-> 700,
       targetPos |-> << 0 - 300, 0 - 5000, 4100 >>, targetScale |-> 600,
       jitter |-> 0],
      [chaosPos |-> << 1, 0 - 12345, 6789 >>,
       chaosRot |-> << 111, 3, 49 >>, chaosScale |-> 567,
       targetPos |-> << 3333, 7, 0 - 1 >>, targetScale |-> 699,
       jitter |-> 499999] }

---------------------------------------------------------------------------
(* Specifications *)

\* Progress controller: frame callbacks of any frame time and toggles.
FrameTick == frame < MaxFrames /\ \E dt \in DeltaTimes : useFrame(dt)

Toggle == inputs < MaxToggles /\ onToggle

NextProgress == FrameTick \/ Toggle

SpecProgress == Init /\ [][NextProgress]_vars

\* Gesture mapper: polls, with the toggle and a drag racing them.
Poll == inputs < MaxPolls
        /\ \E id \in scheduled, r \in Results : predictWebcam(id, TRUE, r)

StalePoll == inputs < MaxPolls
             /\ \E id \in scheduled : predictWebcam(id, FALSE, NoResults)

GestureToggle == inputs < MaxPolls /\ onToggle

GesturePress == inputs < MaxPolls /\ handlePointerDown("scene", FALSE, 100, 50)

GestureRelease == inputs < MaxPolls /\ handlePointerUp("pointerup")

NextGesture == Poll \/ StalePoll \/ GestureToggle \/ GesturePress \/ GestureRelease

SpecGesture == InitPolling /\ [][NextGesture]_vars

\* Rotation physics: pointer events and toggles racing the frame callback.
DragOpen == inputs < MaxDragInputs

PointerDown == DragOpen /\ \E p \in BOOLEAN, cx \in PointerXs, cy \in PointerYs :
                   handlePointerDown("scene", p, cx, cy)

\* A press on a photo frame, as it reaches the group's handler.
FramePress == DragOpen /\ \E cx \in FramePressXs, cy \in FramePressYs :
                  handlePointerDown("frame", ChildPreventsDefault("frame"),
                                    cx, cy)

PointerMove == DragOpen /\ \E cx \in PointerXs, cy \in PointerYs :
                   handlePointerMove(cx, cy)

PointerUp == DragOpen /\ \E e \in ReleaseEvents : handlePointerUp(e)

DragToggle == DragOpen /\ onToggle

DragTick == frame < MaxDragFrames /\ \E dt \in SteadyDeltas : useFrame(dt)

NextDrag ==
    \/ PointerDown
    \/ FramePress
    \/ PointerMove
    \/ PointerUp
    \/ DragToggle
    \/ DragTick

SpecDrag == Init /\ [][NextDrag]_vars

\* Inertia: a short drag during the first frames, then the frame callback
\* runs on with no further input.
DecayOpen == inputs < MaxDecayInputs /\ frame < InputWindow

DecayPress == DecayOpen /\ \E cx \in DecayXs, cy \in DecayYs :
                  handlePointerDown("scene", FALSE, cx, cy)

DecayMove == DecayOpen /\ \E cx \in DecayXs, cy \in DecayYs :
                 handlePointerMove(cx, cy)

DecayRelease == DecayOpen /\ handlePointerUp("pointerup")

DecayToggle == DecayOpen /\ onToggle

SteadyTick == frame < DecayHorizon /\ \E dt \in SteadyDeltas : useFrame(dt)

NextDecay ==
    DecayPress \/ DecayMove \/ DecayRelease \/ DecayToggle \/ SteadyTick

SpecDecay == Init /\ [][NextDecay]_vars

\* Focus selection: frame clicks and background clicks, with presses and
\* releases racing them.
FocusOpen == inputs < MaxFocusInputs

FrameClick == FocusOpen /\ \E i \in Frames : onClick(i)

BackgroundClick == FocusOpen /\ onBackgroundClick

FocusPress == FocusOpen /\ \E hit \in Hits :
                  handlePointerDown(hit, ChildPreventsDefault(hit), 100, 50)

FocusRelease == FocusOpen /\ handlePointerUp("pointerup")

NextFocus == FrameClick \/ BackgroundClick \/ FocusPress \/ FocusRelease

SpecFocus == Init /\ [][NextFocus]_vars

\* Convergence of progress: toggles and a long frame during the first
\* frames, then steady 60 Hz frame callbacks with the tree state held.
ConvergeToggle == inputs < MaxToggles /\ frame < InputWindow /\ onToggle

LongTick == frame < InputWindow /\ \E dt \in LongDeltas : useFrame(dt)

ConvergeTick == frame < DecayHorizon /\ \E dt \in SteadyDeltas : useFrame(dt)

NextConverge == ConvergeToggle \/ LongTick \/ ConvergeTick

SpecConverge == Init /\ [][NextConverge]_vars

\* Life cycle of the gesture view: init(), the polling loop and the
\* teardown in every order.
FilesetLoaded == \E ok \in BOOLEAN : initAfterFileset(ok)

ModelLoaded == \E ok \in BOOLEAN, hasCamera \in BOOLEAN :
                   initAfterModel(ok, hasCamera)

CameraAnswered == \E ok \in BOOLEAN : initAfterCamera(ok)

MetadataLoaded == \E fresh \in BOOLEAN, r \in ViewResults :
                      onloadedmetadata(fresh, r)

AnimationFrame == inputs < MaxViewPolls
                  /\ \E id \in scheduled, fresh \in BOOLEAN, r \in ViewResults :
                         predictWebcam(id, fresh, r)

Unmount == detachVideo

Cleanup == cleanup

NextView ==
    \/ FilesetLoaded
    \/ ModelLoaded
    \/ CameraAnswered
    \/ MetadataLoaded
    \/ AnimationFrame
    \/ Unmount
    \/ Cleanup

SpecView == Init /\ [][NextView]_vars

\* Ambient dust: the frame callback with the pointer moving.
InitDust ==
    /\ SceneConstructed
    /\ particle \in StartParticles
    /\ ornaments = HomeOrnaments
    /\ ViewConstructed

DustTick == frame < MaxDustFrames
            /\ \E vp \in Viewports, t \in Turbulences, sp \in Spawns :
                   dustFrame(vp, t, sp)

DustPointer == inputs < MaxDustInputs
               /\ \E ndc \in PointerNdcs : movePointer(ndc)

NextDust == DustTick \/ DustPointer

SpecDust == InitDust /\ [][NextDust]_vars

\* Attraction source: the frame callback with the hand and the pointer
\* both coming and going.
InitAttract ==
    /\ SceneConstructed
    /\ particle \in AttractParticles
    /\ ornaments = HomeOrnaments
    /\ ViewConstructed

AttractTick == frame < MaxAttractFrames
               /\ \E vp \in Viewports, t \in Turbulences, sp \in Spawns :
                      dustFrame(vp, t, sp)

AttractPointer == inputs < MaxAttractInputs
                  /\ \E ndc \in PointerNdcs : movePointer(ndc)

AttractHand == inputs < MaxAttractInputs
               /\ \E e \in DustHandEvents : handMove(e)

NextAttract == AttractTick \/ AttractPointer \/ AttractHand

SpecAttract == InitAttract /\ [][NextAttract]_vars

\* The ribbon: its frame callback and the tree's, with toggles between.
RibbonTick == frame < MaxRibbonFrames /\ ribbonFrame

RibbonTreeTick == frame < MaxRibbonFrames
                  /\ \E dt \in DeltaTimes : useFrame(dt)

RibbonToggle == inputs < MaxToggles /\ onToggle

NextRibbon == RibbonTick \/ RibbonTreeTick \/ RibbonToggle

SpecRibbon == Init /\ [][NextRibbon]_vars

\* Placement: the generators run for populations of every small size.
PlaceOrnaments ==
    /\ inputs < MaxPlacements
    /\ \E count \in 1 .. MaxPlaced, type \in OrnamentTypes :
           \E jitter \in [0 .. (count - 1) -> AngleJitters] :
               generateTransformData(count, type, jitter)

PlaceFrames == inputs < MaxPlacements
               /\ \E count \in 1 .. MaxPlaced : framesMemo(count)

NextPlacement == PlaceOrnaments \/ PlaceFrames

SpecPlacement == Init /\ [][NextPlacement]_vars

\* Photo frames: their frame callbacks, with the selection set to any
\* index, clicks, and the tree assembling.
FramesOpen == inputs < MaxFrameInputs

FramesSelect == FramesOpen /\ \E i \in SelectedIndexes : setFocusedIndex(i)

FramesClick == FramesOpen /\ \E i \in Frames : onClick(i)

FramesBackground == FramesOpen /\ onBackgroundClick

FramesToggle == FramesOpen /\ onToggle

FramesTreeTick == frame < MaxFrameTicks
                  /\ \E dt \in AssemblyDeltas : useFrame(dt)

FramesTick == frame < MaxFrameTicks /\ \E i \in Frames : singleFrame(i)

FramesRender == render

NextFrames ==
    \/ FramesSelect
    \/ FramesClick
    \/ FramesBackground
    \/ FramesToggle
    \/ FramesTreeTick
    \/ FramesTick
    \/ FramesRender

SpecFrames == Init /\ [][NextFrames]_vars

\* Every handler next to the frame callback: pointer events, polls with
\* the events they dispatch, clicks and toggles.
WritersOpen == inputs < MaxWriterInputs

WritersDown == WritersOpen /\ \E cx \in FramePressXs, cy \in FramePressYs :
                   handlePointerDown("scene", FALSE, cx, cy)

WritersMove == WritersOpen /\ \E cx \in PointerXs, cy \in FramePressYs :
                   handlePointerMove(cx, cy)

WritersUp == WritersOpen /\ handlePointerUp("pointerup")

WritersPoll == WritersOpen
               /\ \E id \in scheduled, r \in ViewResults :
                      predictWebcam(id, TRUE, r)

WritersClick == WritersOpen /\ \E i \in Frames : onClick(i)

WritersBackground == WritersOpen /\ onBackgroundClick

WritersToggle == WritersOpen /\ onToggle

WritersTick == frame < MaxWriterFrames /\ \E dt \in SteadyDeltas : useFrame(dt)

NextWriters ==
    \/ WritersDown
    \/ WritersMove
    \/ WritersUp
    \/ WritersPoll
    \/ WritersClick
    \/ WritersBackground
    \/ WritersToggle
    \/ WritersTick

SpecWriters == InitPolling /\ [][NextWriters]_vars

\* Recentring: a short drag and toggles during the first frames, then
\* the frame callback runs on, as the renderer's loop calls it every frame.
RecentreOpen == inputs < MaxRecentreInputs /\ frame < InputWindow

RecentrePress == RecentreOpen /\ \E cx \in RecentreXs, cy \in RecentreYs :
                     handlePointerDown("scene", FALSE, cx, cy)

RecentreMove == RecentreOpen /\ \E cx \in RecentreXs, cy \in RecentreYs :
                    handlePointerMove(cx, cy)

RecentreRelease == RecentreOpen /\ handlePointerUp("pointerup")

RecentreToggle == RecentreOpen /\ onToggle

RecentreTick == frame < RecentreHorizon
                /\ \E dt \in SteadyDeltas : useFrame(dt)

NextRecentre ==
    \/ RecentrePress
    \/ RecentreMove
    \/ RecentreRelease
    \/ RecentreToggle
    \/ RecentreTick

SpecRecentre == Init /\ [][NextRecentre]_vars /\ WF_vars(RecentreTick)

\* Ornaments: their frame callback at any clock reading, with the tree's
\* frame callback of any frame time and toggles between.
InitOrnaments ==
    /\ SceneConstructed
    /\ particle = HomeParticle
    /\ ornaments \in { OrnamentsConstructed(d, MaxOrnaments) : d \in OrnamentDraws }
    /\ ViewConstructed

OrnamentsTick == frame < MaxOrnamentFrames
                 /\ \E time \in ElapsedTimes : ornamentsFrame(time)

OrnamentsTreeTick == frame < MaxOrnamentFrames
                     /\ \E dt \in DeltaTimes : useFrame(dt)

OrnamentsToggle == inputs < MaxToggles /\ onToggle

NextOrnaments == OrnamentsTick \/ OrnamentsTreeTick \/ OrnamentsToggle

SpecOrnaments == InitOrnaments /\ [][NextOrnaments]_vars

---------------------------------------------------------------------------
(* Observations used by the properties *)

\* The velocities of the tree-spin events in a dispatch list.
SpinVelocities(events) ==
    LET spins == SelectSeq(events, LAMBDA e : e.name = "tree-spin")
    IN  [i \in 1..Len(spins) |-> spins[i].velocity]

\* The sum of a sequence of numbers.
RECURSIVE SumSeq(_)
SumSeq(s) == IF s = << >> THEN 0 ELSE Head(s) + SumSeq(Tail(s))

\* Whether a processed frame showed a hand, from the raw results.
ShowsHand(results) ==
    ~results.threw /\ results.gestures # << >> /\ results.landmarks # << >>

\* The mirrored horizontal hand position of a frame that shows a hand, in
\* two-thousandths: 1 - (wrist.x + middleFinger.x) / 2.
HandXOf(results) ==
    2000 - (results.landmarks[1].wrist.x + results.landmarks[1].middle.x)

\* The step is a poll that processed a new video frame.
FramePolled == lastOp' = "poll" /\ lastArg'.fresh

\* The step is a frame callback run while not dragging.
IdleFrame == lastOp' = "useFrame" /\ ~isDragging

---------------------------------------------------------------------------
(* Progress controller *)

\* C1: from progress = 0, after any sequence of frame callbacks (any frame
\* time >= 0) and tree-state changes, progress stays within [0, 1].
C1_ProgressInUnitInterval == progress >= 0 /\ progress <= ONE

\* A state after several callbacks and toggles, progress strictly inside.
C1_Witness ==
    /\ frame >= 3
    /\ inputs >= 2
    /\ progress > 0
    /\ progress < ONE

\* C2: every frame callback moves progress toward the current target
\* without passing it: with target 1 (FORMED) progress does not decrease
\* and stays at most 1, with target 0 (CHAOS) it does not increase and
\* stays at least 0.
C2_MonotoneTowardTarget ==
    [][ lastOp' = "useFrame" =>
          IF treeState = "FORMED"
          THEN progress <= progress' /\ progress' <= ONE
          ELSE progress' <= progress /\ progress' >= 0 ]_vars

\* A callback in CHAOS has just lowered a progress that a FORMED phase
\* had raised.
C2_Witness ==
    /\ lastOp = "useFrame"
    /\ lastArg.delta > 0
    /\ treeState = "CHAOS"
    /\ inputs >= 2
    /\ progress > 0
    /\ progress < ONE

\* C19: with the tree state held for ConvergeTicks frame callbacks of
\* 16 ms or more (4.992 s of simulated time), progress is within
\* ConvergeEpsilon of the target, from any start: of 1 when FORMED is held
\* (also from progress = 0), of 0 when CHAOS is held (also from 1).
C19_ConvergesWithinFiveSeconds ==
    idleTicks >= ConvergeTicks =>
        IF treeState = "FORMED"
        THEN ONE - progress <= ConvergeEpsilon
        ELSE progress <= ConvergeEpsilon

\* Toggled to FORMED at progress = 0 before the first frame callback,
\* then ConvergeTicks callbacks of 16 ms.
C19_Witness ==
    /\ treeState = "FORMED"
    /\ inputs = 1
    /\ frame = ConvergeTicks
    /\ idleTicks = ConvergeTicks
    /\ lastArg.delta = 16
    /\ progress < ONE
    /\ ONE - progress <= ConvergeEpsilon

\* C20: a frame callback with frame time 0 leaves progress as it is,
\* whatever progress and the tree state are.
C20_ZeroDeltaKeepsProgress ==
    [][ (lastOp' = "useFrame" /\ lastArg'.delta = 0) =>
          progress' = progress ]_vars

\* A callback of frame time 0 while progress is on its way to 1.
C20_Witness ==
    /\ lastOp = "useFrame"
    /\ lastArg.delta = 0
    /\ treeState = "FORMED"
    /\ progress > 0
    /\ progress < ONE

---------------------------------------------------------------------------
(* Gesture-to-state mapper *)

\* C3: on a processed frame with a detected hand the tree state becomes
\* CHAOS for Open_Palm, FORMED for Closed_Fist and is left alone for any
\* other category; a repeated category leaves it the same.
C3_GestureSetsTreeState ==
    [][ (FramePolled /\ ShowsHand(polled')) =>
          LET g == polled'.gestures[1]
          IN  /\ g = "Open_Palm" => treeState' = "CHAOS"
              /\ g = "Closed_Fist" => treeState' = "FORMED"
              /\ g \notin {"Open_Palm", "Closed_Fist"} =>
                    treeState' = treeState ]_vars

\* The third processed frame shows a fist after an open palm: FORMED.
C3_Witness ==
    /\ lastOp = "poll"
    /\ lastArg.fresh
    /\ inputs = 3
    /\ ShowsHand(polled)
    /\ polled.gestures[1] = "Closed_Fist"
    /\ ShowsHand(prevPolled)
    /\ prevPolled.gestures[1] = "Open_Palm"
    /\ treeState = "FORMED"

\* C4: on a detected-hand frame that follows a detected-hand frame, one
\* tree-spin event with velocity 1.2 times the change of the mirrored hand
\* position is emitted when that change exceeds 0.008 in magnitude, and
\* none otherwise.
C4_SwipeEmission ==
    (lastOp = "poll" /\ lastArg.fresh /\ ShowsHand(polled)
        /\ ShowsHand(prevPolled)) =>
        LET d == HandXOf(polled) - HandXOf(prevPolled)
        IN  SpinVelocities(emitted) =
                IF Abs(d) > 16 THEN << d * 600 >> ELSE << >>

\* The fourth frame moved the hand by 0.01: one event of velocity 0.012.
C4_Witness ==
    /\ lastOp = "poll"
    /\ lastArg.fresh
    /\ inputs = 4
    /\ ShowsHand(polled)
    /\ ShowsHand(prevPolled)
    /\ HandXOf(polled) - HandXOf(prevPolled) = 20
    /\ SpinVelocities(emitted) = << 12000 >>

\* C5: a processed frame without a hand publishes hand-move with
\* active = false and leaves the hand target inactive; an inactive hand
\* target becomes active only by a processed frame that shows a hand.
C5_HandLossDeactivates ==
    [][ /\ (FramePolled /\ ~ShowsHand(polled')) =>
              /\ Len(emitted') = 1
              /\ emitted'[1].name = "hand-move"
              /\ ~emitted'[1].active
              /\ ~handTarget'.active
        /\ (~handTarget.active /\ handTarget'.active) =>
              (FramePolled /\ ShowsHand(polled')) ]_vars

\* The hand target was active and the frame just processed lost the hand.
C5_Witness ==
    /\ lastOp = "poll"
    /\ lastArg.fresh
    /\ ~ShowsHand(polled)
    /\ ShowsHand(prevPolled)
    /\ ~handTarget.active
    /\ handTarget.x # 0

\* C6: the first detected-hand frame after startup or after a frame
\* without a hand emits no tree-spin event.
C6_NoSpinOnFirstHandFrame ==
    (lastOp = "poll" /\ lastArg.fresh /\ ShowsHand(polled)
        /\ ~ShowsHand(prevPolled)) =>
        SpinVelocities(emitted) = << >>

\* A hand was tracked, lost, and found again elsewhere.
C6_Witness ==
    /\ lastOp = "poll"
    /\ lastArg.fresh
    /\ handFrames >= 2
    /\ ShowsHand(polled)
    /\ ~ShowsHand(prevPolled)
    /\ HandXOf(polled) = 2000 - 846
    /\ emitted # << >>

\* C26: a poll that hands no video frame to the recognizer (the video
\* time is unchanged, the video is not ready or gone, or the recognizer is
\* not loaded) dispatches no event and leaves the tree state, the
\* attraction target with its active flag and the swipe-tracking position
\* as they were, however many such polls follow one another.
C26_StalePollKeepsState ==
    [][(lastOp' = "poll"
          /\ ~(videoRef /\ gestureRecognizerRef /\ lastArg'.fresh)) =>
         /\ emitted' = << >>
         /\ treeState' = treeState
         /\ handTarget' = handTarget
         /\ previousHandX' = previousHandX
         /\ velocityY' = velocityY]_vars

\* A poll without a new video frame has followed two processed frames
\* of a fist: the tree is still FORMED, the attraction target active and
\* the fist's position still tracked.
C26_Witness ==
    /\ lastOp = "poll"
    /\ ~lastArg.fresh
    /\ handFrames >= 2
    /\ treeState = "FORMED"
    /\ handTarget.active
    /\ previousHandX # 0 - 1

\* C11: a tree-spin event received while not dragging adds its velocity
\* to the yaw velocity, so the events of successive polls with no frame
\* callback between them sum up; received while dragging it changes
\* nothing of the scene, and the release of the drag does not apply it
\* afterwards.
C11_SpinAddsUnlessDragging ==
    [][ /\ (FramePolled /\ ~isDragging) =>
              velocityY' = velocityY + SumSeq(SpinVelocities(emitted'))
        /\ (FramePolled /\ isDragging) =>
              UNCHANGED << velocityY, velocityX, rotation, isDragging >>
        /\ lastOp' \in {"pointerup", "pointerleave", "mouseup", "touchend"}
              => velocityY' = velocityY ]_vars

\* Two swipes in a row with no frame callback between: the yaw velocity
\* is the sum of both events' velocities.
C11_Witness ==
    /\ lastOp = "poll"
    /\ lastArg.fresh
    /\ ~isDragging
    /\ handFrames = 3
    /\ SpinVelocities(emitted) = << 12000 >>
    /\ velocityY = 12000 - 15600

---------------------------------------------------------------------------
(* Photo-frame focus *)

\* The frames that are rendered focused.
FocusedFrames(focusedIndex) == { i \in Frames : focusedIndex = i }

\* C12: the selection is no frame or one frame of the scene, so at most
\* one frame is rendered focused; a click on frame B while another frame
\* A is focused leaves B focused and A not.
C12_SingleFocus ==
    [][ /\ focusedPhotoIndex' \in Frames \cup {NoFocus}
        /\ Cardinality(FocusedFrames(focusedPhotoIndex')) <= 1
        /\ (lastOp' = "click" /\ focusedPhotoIndex # NoFocus
                /\ focusedPhotoIndex # lastArg'.frame) =>
              FocusedFrames(focusedPhotoIndex') = {lastArg'.frame} ]_vars

\* Frame 2 was clicked while frame 0 was focused.
C12_Witness ==
    /\ lastOp = "click"
    /\ lastArg.frame = 2
    /\ lastArg.focusedIndex = 0
    /\ focusedPhotoIndex = 2

\* C13: a click on the focused frame clears the focus; a background
\* click clears the focus when the scene is not dragged, and leaves the
\* selection as it is while dragging or when nothing is focused.
C13_ToggleAndBackgroundClear ==
    [][ /\ (lastOp' = "click" /\ focusedPhotoIndex = lastArg'.frame) =>
              focusedPhotoIndex' = NoFocus
        /\ (lastOp' = "pointermissed" /\ ~isDragging) =>
              focusedPhotoIndex' = NoFocus
        /\ (lastOp' = "pointermissed"
                /\ (isDragging \/ focusedPhotoIndex = NoFocus)) =>
              focusedPhotoIndex' = focusedPhotoIndex ]_vars

\* A background click during a drag has left frame 1 focused.
C13_Witness ==
    /\ lastOp = "pointermissed"
    /\ isDragging
    /\ focusedPhotoIndex = 1

\* C27: progress changes only in the tree's frame callback, which moves
\* it by one damping step (lambda 2, the callback's frame time) towards
\* the tree state's target; every other handler leaves it as it is.
C27_OnlyFrameTickWritesProgress ==
    [][/\ lastOp' # "useFrame" => progress' = progress
       /\ lastOp' = "useFrame" =>
             LET keep == ExpNeg(2 * lastArg'.delta)
                 goal == IF treeState = "FORMED" THEN 10000 ELSE 0
                 step == keep * progress + (10000 - keep) * goal
             IN  /\ 10000 * progress' - step <= 5000
                 /\ step - 10000 * progress' <= 5000]_vars

\* A pointer move of a drag was handled between two frame callbacks,
\* with progress on its way from 0 to 1.
C27_Witness ==
    /\ lastOp = "pointermove"
    /\ isDragging
    /\ frame >= 1
    /\ progress > 0
    /\ progress < 10000

---------------------------------------------------------------------------
(* The ribbon *)

\* C23: when the ribbon's frame callback has run, the ribbon is visible
\* exactly if the tree state is FORMED (hidden in CHAOS at any progress),
\* and its scale is 0.01 + 0.99 * progress.
C23_RibbonVisibleIffFormed ==
    lastOp = "ribbonFrame" =>
        /\ ribbon.visible <=> treeState = "FORMED"
        /\ 10000 * ribbon.scale - (1000000 + 9900 * progress) <= 5000
        /\ (1000000 + 9900 * progress) - 10000 * ribbon.scale <= 5000

\* The ribbon is hidden in CHAOS although progress, and with it the
\* scale, is still above a half.
C23_Witness ==
    /\ lastOp = "ribbonFrame"
    /\ treeState = "CHAOS"
    /\ progress > 5000
    /\ ~ribbon.visible
    /\ ribbon.scale > 5000

---------------------------------------------------------------------------
(* Target placement *)

\* The angle a (millionths of a radian) is i golden angles of 137.5
\* degrees (2.399828 rad) plus at most slack, up to whole turns and the
\* rounding of the fixed-point product.
GoldenPlus(a, i, slack) ==
    LET off == (a - i * 2399828) % 6283185
    IN  off <= slack + 1000 \/ off >= 6283185 - 1000

\* C24 (as claimed): in every placed population the target angle of
\* entity i is i times the golden angle of 137.5 degrees plus at most the
\* kind's jitter (none for photo frames, below 0.5 rad for ornaments), so
\* consecutive indices are 137.5 degrees apart.
C24_GoldenAngleIncrement ==
    lastOp \in {"generateTransformData", "frames"} =>
        \A i \in DOMAIN generated.angle :
            GoldenPlus(generated.angle[i], i,
                       IF generated.kind = "frame" THEN 0 ELSE 500000)

\* C25: while the focus selection is an index no frame has, no frame is
\* focused and every operation goes through: a frame's callback takes
\* the standard branch (no focus override, its scale moving towards 1
\* from wherever it is), a click on a frame selects that frame, and a
\* background click outside a drag clears the selection.
C25_StaleIndexFocusesNothing ==
    [][(focusedPhotoIndex # 0 - 1
          /\ ~(focusedPhotoIndex \in 0 .. (PhotoCount - 1))) =>
         /\ lastOp' = "singleFrame" =>
               LET old == photoFrames[lastArg'.index]
                   new == photoFrames'[lastArg'.index]
               IN  /\ new.goal = "standard"
                   /\ \/ old.scale <= new.scale /\ new.scale <= 10000
                      \/ 10000 <= new.scale /\ new.scale <= old.scale
                   /\ new.sway <=> progress > 8000
         /\ lastOp' = "click" => focusedPhotoIndex' = lastArg'.frame
         /\ (lastOp' = "pointermissed" /\ ~isDragging) =>
               focusedPhotoIndex' = 0 - 1]_vars

\* With the selection at an index beyond the last frame, a frame that
\* had grown under an earlier focus has run its callback and shrinks
\* back towards scale 1.
C25_Witness ==
    /\ lastOp = "singleFrame"
    /\ focusedPhotoIndex >= PhotoCount
    /\ photoFrames[lastArg.index].goal = "standard"
    /\ photoFrames[lastArg.index].scale > 10000

---------------------------------------------------------------------------
(* Ambient dust *)

\* C14 (as claimed): no dust particle ends a frame callback below the
\* floor (y < -15); one that crossed it in the callback's integration
\* step is back at the ceiling, at rest, when the callback returns.
C14_NeverBelowFloor ==
    lastOp = "dustFrame" => particle.py >= 0 - 15000000

\* C21: every dust frame callback picks its attraction source with the
\* hand first: an active hand target gives the hand's position (scaled by
\* half the viewport) and the softer force 0.005, whatever the pointer
\* is; otherwise a pointer off (0, 0) gives the pointer's position and
\* the force 0.008; otherwise no attraction is active.
C21_GesturePrecedence ==
    [][lastOp' = "dustFrame" =>
         LET vp == lastArg'.viewport
             t == lastArg'.target
             moved == pointer.x # 0 \/ pointer.y # 0
         IN  /\ handTarget.active =>
                    /\ t.isActive
                    /\ 2 * t.x = handTarget.x * vp.width * 500
                    /\ 2 * t.y = handTarget.y * vp.height * 500
                    /\ lastArg'.pull = 10
             /\ (~handTarget.active /\ moved) =>
                    /\ t.isActive
                    /\ 2 * t.x = pointer.x * vp.width * 500
                    /\ 2 * t.y = pointer.y * vp.height * 500
                    /\ lastArg'.pull = 16
             /\ (~handTarget.active /\ ~moved) => ~t.isActive]_vars

\* A frame callback ran with the hand active and the pointer off (0, 0),
\* the particle being pulled towards the hand and not the pointer.
C21_Witness ==
    /\ lastOp = "dustFrame"
    /\ handTarget.active
    /\ pointer.x # 0
    /\ lastArg.target.x = handTarget.x * 8000
    /\ lastArg.target.x # pointer.x * 8000
    /\ particle.vx # 0

\* The dust frame callback that has just run found no attraction source.
InactiveDustFrame == lastOp' = "dustFrame" /\ ~lastArg'.target.isActive

\* w is v times 0.95, to the nearest millionth.
Halted(v, w) == 100 * w - 95 * v <= 50 /\ 95 * v - 100 * w <= 50

\* w is no larger than v in magnitude and not of the opposite sign.
Settles(v, w) == (v >= 0 => (0 <= w /\ w <= v)) /\ (v <= 0 => (v <= w /\ w <= 0))

---------------------------------------------------------------------------
(* Life cycle of the gesture view *)

\* C15: once the gesture view is torn down (its cleanup has run), in
\* whatever phase that happened, no poll is pending and none is requested
\* any more, and no hand-move event, tree-spin event or tree-state change
\* comes from it.
C15_NoPollAfterTeardown ==
    [][ /\ ~mounted' => scheduled' = {}
        /\ ~mounted => (emitted' = << >> /\ treeState' = treeState
                         /\ requestRef' = requestRef) ]_vars

\* Torn down while polling was active: frames had been processed, the
\* pending request was cancelled, and the late steps have run.
C15_Witness ==
    /\ ~mounted
    /\ handFrames >= 1
    /\ requestRef # 0
    /\ scheduled = {}
    /\ treeState = "FORMED"

\* C16: when the view is torn down and init() has run to its end, the
\* camera stream, if one was obtained, has its tracks stopped, whether
\* the stream arrived before, during or after the teardown.
C16_StreamStopped ==
    (~mounted /\ initStep = "done") => tracks # "live"

\* The stream arrived after the teardown and was stopped on arrival.
C16_Witness ==
    /\ ~mounted
    /\ initStep = "done"
    /\ lastOp = "camera"
    /\ lastArg.ok
    /\ tracks = "stopped"
    /\ ~streamRef

\* C17: a processed frame on which recognition throws is handled as a
\* frame without a hand: swipe tracking is reset, one hand-move event with
\* active = false is published and the hand target is inactive, the tree
\* state and the yaw velocity are as before; the next poll is requested.
C17_ThrowIsNoHand ==
    [][ (FramePolled /\ polled'.threw) =>
          /\ previousHandX' = 0 - 1
          /\ Len(emitted') = 1
          /\ emitted'[1].name = "hand-move"
          /\ ~emitted'[1].active
          /\ ~handTarget'.active
          /\ treeState' = treeState
          /\ velocityY' = velocityY
          /\ requestRef' \in scheduled' ]_vars

\* Recognition threw on the frame after a tracked fist; the loop goes on.
C17_Witness ==
    /\ lastOp = "poll"
    /\ lastArg.fresh
    /\ polled.threw
    /\ ShowsHand(prevPolled)
    /\ prevPolled.gestures[1] = "Closed_Fist"
    /\ treeState = "FORMED"
    /\ previousHandX = 0 - 1
    /\ scheduled # {}

---------------------------------------------------------------------------
(* Rotation/drag physics *)

\* The step is a pointer-down the scene group accepts.
AcceptedDown == lastOp' = "pointerdown" /\ ~lastArg'.defaultPrevented

\* C7: an unhandled pointer-down puts the machine in Dragging, each of
\* pointer-up, pointer-leave, mouse-up and touch-end puts it in Idle
\* (also from Idle), and nothing else changes it.
C7_DragStateMachine ==
    [][ /\ AcceptedDown => isDragging'
        /\ lastOp' \in {"pointerup", "pointerleave", "mouseup", "touchend"}
              => ~isDragging'
        /\ (~AcceptedDown /\ lastOp' \notin
                {"pointerup", "pointerleave", "mouseup", "touchend"})
              => isDragging' = isDragging ]_vars

\* A drag that moved the scene has just been ended by a pointer-leave.
C7_Witness ==
    /\ lastOp = "pointerleave"
    /\ ~isDragging
    /\ IsNum(velocityY)
    /\ velocityY # 0

\* C18 (as claimed): a pointer-down on a photo frame, a child of the scene
\* group, neither starts a drag nor resets the angular velocities.  Stated
\* for a press while the released scene is still turning.
C18_FramePressStartsNoDrag ==
    [][ (/\ lastOp' = "pointerdown"
         /\ lastArg'.hit = "frame"
         /\ ~isDragging
         /\ IsNum(velocityY) /\ velocityY # 0) =>
          (/\ isDragging' = isDragging
           /\ velocityY' = velocityY
           /\ velocityX' = velocityX) ]_vars

\* C28 (as claimed): every move event of a drag, at any client
\* coordinates including 0, leaves the yaw velocity and the scene rotation
\* numbers, records the event's coordinates as the pointer position and
\* sets the yaw velocity to 0.0025 times the horizontal distance from the
\* position recorded before.
C28_MoveSetsYawVelocity ==
    [][(lastOp' = "pointermove" /\ isDragging) =>
         /\ velocityY' # NaN
         /\ rotation'.y # NaN
         /\ rotation'.x # NaN
         /\ lastPointer' = [x |-> lastArg'.clientX, y |-> lastArg'.clientY]
         /\ velocityY' = (lastArg'.clientX - lastPointer.x) * 2500]_vars

\* C8 (as claimed): while the tree is FORMED a move event changes neither
\* the pitch velocity nor the pitch rotation of the scene.  Stated for
\* drags whose coordinates and angles are all numbers.
C8_FormedMoveLeavesPitch ==
    [][ (/\ lastOp' = "pointermove"
         /\ treeState = "FORMED"
         /\ IsNum(lastPointer.x) /\ IsNum(lastPointer.y)
         /\ IsNum(lastPointer'.x) /\ IsNum(lastPointer'.y)
         /\ IsNum(rotation.x) /\ IsNum(rotation.y) /\ IsNum(velocityX)) =>
          (velocityX' = velocityX /\ rotation'.x = rotation.x) ]_vars

\* One application of friction to velocity v giving w: w is 0.98 v to the
\* nearest unit, or exactly 0 when that is below 0.0001 in magnitude; its
\* sign is not reversed and its magnitude not increased.
FrictionStep(v, w) ==
    /\ w = 0 <=> 98 * Abs(v) < 9950
    /\ w # 0 => Abs(100 * w - 98 * v) <= 50
    /\ Abs(w) <= Abs(v)
    /\ w > 0 => v > 0
    /\ w < 0 => v < 0

\* C9: in a frame callback while not dragging the velocities as they were
\* are added to the rotation (beside the idle drift), and each velocity
\* then takes one friction step.
C9_IntegrateThenFriction ==
    [][ IdleFrame =>
          /\ IsNum(velocityY) => FrictionStep(velocityY, velocityY')
          /\ IsNum(velocityX) => FrictionStep(velocityX, velocityX')
          /\ (IsNum(velocityY) /\ IsNum(rotation.y)) =>
                rotation'.y - (rotation.y + velocityY) \in {0, 500, 1000}
          /\ (IsNum(velocityX) /\ IsNum(rotation.x)) =>
                LET rx == rotation.x + velocityX
                IN  rotation'.x \in {rx, rx + 300, RoundDiv(rx * 95, 100)}
      ]_vars

\* Inertia carried the scene more than a radian and friction has brought
\* the yaw velocity to exactly 0.
C9_Witness ==
    /\ lastOp = "useFrame"
    /\ ~isDragging
    /\ velocityY = 0
    /\ IsNum(rotation.y)
    /\ Abs(rotation.y) > 4000000

\* Both velocities are numbers below 0.001 in magnitude.
BothQuiet(vy, vx) ==
    /\ vy # NaN /\ vx # NaN
    /\ 0 - 1000 < vy /\ vy < 1000
    /\ 0 - 1000 < vx /\ vx < 1000

\* b lies between 0 and a: moved towards 0, not past it and not away.
TowardZero(a, b) == (a >= 0 /\ 0 <= b /\ b <= a) \/ (a <= 0 /\ a <= b /\ b <= 0)

\* C29: in a frame callback outside a drag the idle drift is added, on
\* top of the integrated velocities, only if both velocities are below
\* 0.001 in magnitude after friction: in FORMED 0.001 of yaw, the pitch
\* moving towards 0 and never away from it; in CHAOS 0.0005 of yaw (less
\* than the FORMED spin) and 0.0003 of pitch; with either velocity at or
\* above 0.001 the rotation is the integrated one.  Stated for rotations
\* and velocities that are numbers.
C29_IdleDriftOnlyAtRest ==
    [][(IdleFrame /\ IsNum(velocityY) /\ IsNum(velocityX)
          /\ IsNum(rotation.y) /\ IsNum(rotation.x)) =>
         LET ry == rotation.y + velocityY
             rx == rotation.x + velocityX
         IN  IF BothQuiet(velocityY', velocityX')
             THEN IF treeState = "FORMED"
                  THEN /\ rotation'.y = ry + 1000
                       /\ TowardZero(rx, rotation'.x)
                  ELSE /\ rotation'.y = ry + 500
                       /\ rotation'.x = rx + 300
             ELSE rotation'.y = ry /\ rotation'.x = rx]_vars

\* A formed tree at rest whose pitch, left by the chaos drift, has been
\* pulled back towards 0 by the callback.
C29_Witness ==
    /\ lastOp = "useFrame"
    /\ ~isDragging
    /\ treeState = "FORMED"
    /\ velocityY = 0
    /\ velocityX = 0
    /\ rotation.x > 0
    /\ rotation.x < 300
    /\ rotation.y >= 1500

\* The formed tree is left alone for good: no drag is in progress.
FormedAndReleased == treeState = "FORMED" /\ ~isDragging

\* The pitch rotation is a number within PitchEpsilon of 0.
PitchNearZero ==
    /\ rotation.x # NaN
    /\ 0 - PitchEpsilon <= rotation.x
    /\ rotation.x <= PitchEpsilon

\* Once the pitch rotation is not a number no handler and no frame
\* callback makes it one again.
UndefinedPitchStays == [][rotation.x = NaN => rotation'.x = NaN]_vars

\* C30 (as claimed): if the tree stays FORMED and released with no
\* further input, then whatever the pitch rotation and the velocities
\* were, the pitch rotation eventually is within epsilon of 0 and stays
\* there.
C30_PitchRecentres == <>[]FormedAndReleased => <>[]PitchNearZero

\* C10: DecayBound frame callbacks after the last input, with the drag
\* released, both velocities are exactly 0, and they stay 0.
C10_VelocitiesComeToRest ==
    (~isDragging /\ idleTicks >= DecayBound
        /\ IsNum(velocityY) /\ IsNum(velocityX)) =>
        (velocityY = 0 /\ velocityX = 0)

\* A drag released at 0.1 rad per frame in both axes, DecayBound frames on.
C10_Witness ==
    /\ ~isDragging
    /\ idleTicks = DecayBound
    /\ velocityY = 0
    /\ velocityX = 0
    /\ IsNum(rotation.y)
    /\ IsNum(rotation.x)
    /\ Abs(rotation.y) > 4000000
    /\ Abs(rotation.x) > 4000000

---------------------------------------------------------------------------
(* Ornament transforms at the ends of the progress range *)

\* C31: whenever the ornaments' frame callback has run, at any clock
\* reading: if progress is 1, each sphere and each box was written its
\* target position, target rotation and target scale (the wobble and the
\* tumble add nothing); if progress is 0, each was written its chaos
\* position and chaos scale.
C31_EndpointsAreExact ==
    lastOp = "ornamentsFrame" =>
        \A type \in DOMAIN ornaments :
            \A i \in DOMAIN ornaments[type].written :
                LET chaos == ornaments[type].chaosData[i]
                    target == ornaments[type].targetData[i]
                    written == ornaments[type].written[i]
                IN  /\ progress = ONE => written = target
                    /\ progress = 0 => /\ written.pos = chaos.pos
                                       /\ written.scale = chaos.scale

\* The callback has run at a clock reading where the spheres' and the
\* boxes' waves are not zero, with the tree fully formed, and an earlier
\* run had left the instances elsewhere.
C31_Witness ==
    /\ lastOp = "ornamentsFrame"
    /\ lastArg.time = 5000
    /\ progress = ONE
    /\ frame >= 3
    /\ \A type \in DOMAIN ornaments :
           /\ ornaments[type].written[1] = ornaments[type].targetData[1]
           /\ ornaments[type].chaosData[1].rot # ornaments[type].targetData[1].rot

---------------------------------------------------------------------------
(* Photo frames: the focus override and the standard behaviour *)

\* The step from a to b is a tenth of the way from a to c, to the nearest
\* unit.
TenthTowards(a, b, c) ==
    /\ 10 * (b - a) - (c - a) <= 5
    /\ (c - a) - 10 * (b - a) <= 5

\* Each coordinate of v moves a tenth of the way to the point goal.
PosApproaches(v, w, goal) ==
    \A k \in 1 .. 3 : TenthTowards(v[k], w[k], goal[k])

\* C32: in every run of a photo frame's callback, a focused frame moves
\* towards the fixed world point (0, 2, 18) taken through the inverse of
\* the scene group's world matrix and towards scale 2.5, with no sway,
\* whatever progress and the frame's chaos and target points are; a frame
\* that is not focused moves towards the blend of its chaos and target
\* points at progress and towards scale 1, and the sway is added exactly
\* when progress exceeds 0.8.
C32_FocusedFrameIgnoresBlend ==
    [][lastOp' = "singleFrame" =>
         LET i == lastArg'.index
             old == photoFrames[i]
             new == photoFrames'[i]
         IN  IF focusedPhotoIndex = i
             THEN /\ new.goal = "focus"
                  /\ PosApproaches(old.pos, new.pos,
                                   ApplyInverse(matrixWorld, FocusWorldPos))
                  /\ TenthTowards(old.scale, new.scale, FocusScale)
                  /\ ~new.sway
             ELSE /\ new.goal = "standard"
                  /\ PosApproaches(old.pos, new.pos,
                                   lerpVectors(FrameData(i).chaosPos,
                                               FrameData(i).targetPos,
                                               progress))
                  /\ TenthTowards(old.scale, new.scale, ONE)
                  /\ new.sway <=> progress > SwayThreshold]_vars

\* With the tree formed and the scene group turned, one frame has run its
\* callback unfocused, swaying, and the focused frame has then run its
\* callback and left the origin growing.
C32_Witness ==
    /\ lastOp = "singleFrame"
    /\ focusedPhotoIndex = lastArg.index
    /\ photoFrames[lastArg.index].goal = "focus"
    /\ photoFrames[lastArg.index].scale > ONE
    /\ photoFrames[lastArg.index].pos[3] > 0
    /\ matrixWorld.y > 0
    /\ progress > SwayThreshold
    /\ \E j \in Frames : /\ photoFrames[j].goal = "standard"
                         /\ photoFrames[j].sway

---------------------------------------------------------------------------
(* The start of a drag *)

\* C33: every pointer-down that the scene group accepts (its default was
\* not prevented) leaves the yaw velocity and the pitch velocity at 0,
\* whatever a drag or the swipe events had left in them.
C33_DownZeroesVelocities ==
    [][(lastOp' = "pointerdown" /\ ~lastArg'.defaultPrevented) =>
          /\ velocityY' = 0
          /\ velocityX' = 0
          /\ isDragging']_vars

\* Two polled frames showed the hand far enough apart for a swipe, whose
\* tree-spin event added to the yaw velocity, and the press that followed
\* was accepted.
C33_Witness ==
    /\ lastOp = "pointerdown"
    /\ ~lastArg.defaultPrevented
    /\ isDragging
    /\ velocityY = 0
    /\ ShowsHand(polled)
    /\ ShowsHand(prevPolled)
    /\ IsSwipe(HandXOf(polled) - HandXOf(prevPolled))
    /\ inputs = 3

---------------------------------------------------------------------------
(* What a drag suspends *)

\* C34: a frame callback run while dragging changes progress only: the
\* scene rotation and both angular velocities stay as they were (nothing
\* is integrated, no friction, no idle drift); and a pointer move that
\* arrives while not dragging leaves the rotation, both velocities and the
\* recorded pointer position as they were.
C34_DragSuspendsPhysics ==
    [][/\ (lastOp' = "useFrame" /\ isDragging) =>
             /\ progress' = damp(progress, ProgressTarget(treeState),
                                 DampLambda, lastArg'.delta)
             /\ UNCHANGED << rotation, velocityY, velocityX, isDragging,
                             lastPointer, treeState, focusedPhotoIndex >>
       /\ (lastOp' = "pointermove" /\ ~isDragging) =>
             UNCHANGED << rotation, velocityY, velocityX, lastPointer,
                          isDragging, progress, treeState >>]_vars

\* In a drag that has turned the scene, with the tree assembling, the
\* frame callback has run: progress has moved and the velocities the
\* last move set are still there.
C34_Witness ==
    /\ lastOp = "useFrame"
    /\ isDragging
    /\ IsNum(velocityY)
    /\ velocityY # 0
    /\ IsNum(rotation.y)
    /\ rotation.y # 0
    /\ progress > 0
    /\ progress < ONE

---------------------------------------------------------------------------
(* The two writers of the tree state *)

\* The category of a frame that shows a hand is one of the two that the
\* mapper acts on.
HoldsGesture(results) ==
    /\ ShowsHand(results)
    /\ results.gestures[1] \in {"Open_Palm", "Closed_Fist"}

\* C35: the tree state is always CHAOS or FORMED; the toggle flips it
\* even while a gesture is held, and the next processed frame that shows
\* the held gesture again (Open_Palm or Closed_Fist) puts the tree state
\* back to that gesture's state, CHAOS or FORMED, whatever the toggle had
\* made of it.
C35_LastWriterWins ==
    /\ [](treeState \in {"CHAOS", "FORMED"})
    /\ [][/\ lastOp' = "toggle" =>
                /\ treeState' # treeState
                /\ polled' = polled
          /\ (FramePolled /\ HoldsGesture(polled) /\ HoldsGesture(polled')
                /\ polled'.gestures[1] = polled.gestures[1]) =>
                treeState' = IF polled'.gestures[1] = "Open_Palm"
                             THEN "CHAOS" ELSE "FORMED"]_vars

\* An open palm was held over two processed frames and the tree is in
\* CHAOS again, although between the two frames the toggle had made it
\* FORMED and a frame callback had started assembling it.
C35_Witness ==
    /\ lastOp = "poll"
    /\ lastArg.fresh
    /\ HoldsGesture(polled)
    /\ HoldsGesture(prevPolled)
    /\ polled.gestures[1] = "Open_Palm"
    /\ prevPolled.gestures[1] = "Open_Palm"
    /\ handFrames = 2
    /\ inputs = 3
    /\ treeState = "CHAOS"
    /\ progress > 0

====
